---- MODULE Spec2Model ----
(***************************************************************************)
(* ts-actions: the Step builder, the setup-requirement detector, the       *)
(* TypeScript-function synthesis pass, argument marshaling and the         *)
(* generated driver, modelled from the TypeScript sources.                 *)
(*                                                                         *)
(* Strings are TLA+ strings.  Multi-line text (a shell command, generated  *)
(* code) is the sequence of its lines, i.e. text.split("\n").  An optional *)
(* value (a JavaScript field that may be undefined/null) is None or        *)
(* Some(v).                                                                *)
(***************************************************************************)
EXTENDS Integers, Sequences, FiniteSets, TLC

VARIABLES
    step,        \* StepSpec: the Step under construction
    calls,       \* StepSpec: number of builder calls made on it
    lastCall,    \* StepSpec: name of the most recent builder call
    args,        \* ArgsSpec: the argument list handed to the transpiler
    processedArgs, \* ArgsSpec: result of processArguments, once computed
    envVarCode,  \* ArgsSpec: result of generateEnvVarCode, once computed
    heap,        \* Spec: the Step objects, an object's id being its index
    jobs,        \* Spec: workflow._getJobInstances(), in insertion order
    pc,          \* Spec: "built", "processing", "done" or "rejected"
    ji,          \* Spec: index of the job processWorkflowSteps is at
    si,          \* Spec: index of the step it is at in that job
    processedSteps, \* Spec: the processedSteps array of the current job
    tp,          \* Spec: the transpileWithBundling call in progress
    log,         \* Spec: ids of the steps handed to processStep, in order
    setupRuns,   \* Spec: completed runs of addSetupActionsToWorkflow
    afterSetup,  \* Spec: the jobs as its first run left them
    initial,     \* Spec: heap and jobs as the builder left them
    pre,         \* Spec: heap size and jobs when the step loop started
    extractionFailed, \* Spec: some extraction has returned null
    drv,         \* DriverSpec: one run of a generated driver under node
    script,      \* ShellSpec: the script text handed to wrapJavaScriptForShell
    origin,      \* ShellSpec: "synthesized" (wrapWithErrorHandler made it) or "direct"
    runCommand,  \* ShellSpec: the run command built from it, once built
    stdin,       \* ShellSpec: what the shell gave node on standard input
    leftover,    \* ShellSpec: the lines the shell read on after the heredoc
    trace,       \* LocateSpec: the frames of the stack trace, in stack order
    located,     \* LocateSpec: what parseStackTrace returned, once called
    ast,         \* FindSpec: the nodes of the source file, in source order
    fnName,      \* FindSpec: fn.name, "" for an anonymous function
    targetLine,  \* FindSpec: the line number parseStackTrace returned
    foundNode,   \* FindSpec: what findFunctionInAST returned, once called
    given,       \* CallSpec: what was passed to runTypeScript after the function
    callCode,    \* CallSpec: the code transpileTypeScriptFunction returned
    replacement, \* CopySpec: the step processTypeScriptStep returned, once called
    jobObjects,  \* NeedsSpec: the Job objects: id field, who wrote it, last addJob id
    configJobs,  \* NeedsSpec: the keys of workflow.config.jobs
    needsResult, \* NeedsSpec: the needs() call just made and what it came to
    jobCalls,    \* NeedsSpec: number of calls made so far
    detectJobs, \* DetectSpec: the jobs of the workflow, each the list of its Step objects
    requiredSetup,\* DetectSpec: what detectRequiredSetupActions returned, once called
    fetchPc, \* FetchSpec: where fetchActionYml stands: "start", an await, or "settled"
    ymlResponse, \* FetchSpec: what the server answers for action.yml
    yamlResponse, \* FetchSpec: what the server answers for action.yaml
    fetched, \* FetchSpec: the files fetch was called for, in order
    fetchResult,\* FetchSpec: the metadata returned or the error thrown, once settled
    registry, \* RegistrySpec: the actions of registry.json, none while the file does not exist
    savedRefs, \* RegistrySpec: the references saveImportedAction has been called with
    regClock, \* RegistrySpec: the time, one tick per call of saveImportedAction
    lastSave, \* RegistrySpec: the reference of the last save and the actions before it
    importedAnswer \* RegistrySpec: the last isActionImported call and its result

stepVars == <<step, calls, lastCall>>
argVars == <<args, processedArgs, envVarCode>>
synthVars == <<heap, jobs, pc, ji, si, processedSteps, tp, log, setupRuns,
               afterSetup, initial, pre, extractionFailed>>
drvVars == <<drv>>
shVars == <<script, origin, runCommand, stdin, leftover>>
\* the variables of the specifications of single functions
locVars == <<trace, located>>
findVars == <<ast, fnName, targetLine, foundNode>>
callVars == <<given, callCode>>
copyVars == <<replacement>>
needsVars == <<jobObjects, configJobs, needsResult, jobCalls>>
detectVars == <<detectJobs, requiredSetup>>
fetchVars == <<fetchPc, ymlResponse, yamlResponse, fetched, fetchResult>>
registryVars == <<registry, savedRefs, regClock, lastSave, importedAnswer>>
unitVars == <<shVars, locVars, findVars, callVars, copyVars, needsVars, detectVars, fetchVars, registryVars>>
\* for each of them, the variables of the others
shRest == <<locVars, findVars, callVars, copyVars, needsVars, detectVars, fetchVars, registryVars>>
locRest == <<shVars, findVars, callVars, copyVars, needsVars, detectVars, fetchVars, registryVars>>
findRest == <<shVars, locVars, callVars, copyVars, needsVars, detectVars, fetchVars, registryVars>>
callRest == <<shVars, locVars, findVars, copyVars, needsVars, detectVars, fetchVars, registryVars>>
copyRest == <<shVars, locVars, findVars, callVars, needsVars, detectVars, fetchVars, registryVars>>
needsRest == <<shVars, locVars, findVars, callVars, copyVars, detectVars, fetchVars, registryVars>>
detectRest == <<shVars, locVars, findVars, callVars, copyVars, needsVars, fetchVars, registryVars>>
fetchRest == <<shVars, locVars, findVars, callVars, copyVars, needsVars, detectVars, registryVars>>
registryRest == <<shVars, locVars, findVars, callVars, copyVars, needsVars, detectVars, fetchVars>>
vars == <<stepVars, argVars, synthVars, drvVars, unitVars>>

----------------------------------------------------------------------------
(* Optional values and JavaScript truthiness *)

None == <<>>
Some(v) == <<v>>
IsSome(o) == o # None
Get(o) == o[1]

\* if (x) for an optional string: set and not the empty string
TruthyStr(o) == IsSome(o) /\ Get(o) # ""
\* if (x) for an optional text (a string kept as its lines)
EmptyText == <<"">>
TruthyText(o) == IsSome(o) /\ Get(o) # EmptyText
\* if (x) for an optional number / boolean
TruthyNum(o) == IsSome(o) /\ Get(o) # 0
TruthyBool(o) == IsSome(o) /\ Get(o)
\* if (x) for an optional object: any object is truthy
TruthyMap(o) == IsSome(o)

\* String.prototype.includes
Includes(s, sub) ==
    \E i \in 1..(Len(s) - Len(sub) + 1) : SubSeq(s, i, i + Len(sub) - 1) = sub

\* { ...a, ...b } for optional maps a and plain map b: b wins
Spread(a, b) == IF IsSome(a) THEN b @@ Get(a) ELSE b

----------------------------------------------------------------------------
(* JavaScript values handed to runTypeScript after the function *)

Str(s) == [t |-> "string", s |-> s, n |-> 0, b |-> FALSE, keys |-> {}]
Num(n) == [t |-> "number", s |-> "", n |-> n, b |-> FALSE, keys |-> {}]
Bool(b) == [t |-> "boolean", s |-> "", n |-> 0, b |-> b, keys |-> {}]
\* an object literal with the given own keys; s is its nodeVersion, if any
Obj(keys, nodeVersion) ==
    [t |-> "object", s |-> nodeVersion, n |-> 0, b |-> FALSE, keys |-> keys]

----------------------------------------------------------------------------
(* class Step *)

\* new Step(): this.step = {}, no action ref, no function
NewStep ==
    [ id |-> None, name |-> None, uses |-> None, run |-> None,
      with |-> None, env |-> None, if |-> None,
      continueOnError |-> None, timeoutMinutes |-> None,
      workingDirectory |-> None,
      currentActionRef |-> None,
      typescriptFunction |-> None, typescriptArgs |-> <<>>,
      typescriptOptions |-> None, typescriptStackTrace |-> None ]

StepId(s, id) == [s EXCEPT !.id = Some(id)]

StepName(s, name) == [s EXCEPT !.name = Some(name)]

\* uses(action): sets uses and the current action ref, clears run
StepUses(s, actionRef) ==
    [s EXCEPT !.uses = Some(actionRef),
              !.currentActionRef = Some(actionRef),
              !.run = None]

\* run(command): sets run, clears uses, with and the function reference
StepRun(s, command) ==
    [s EXCEPT !.run = Some(command),
              !.currentActionRef = None,
              !.uses = None,
              !.with = None,
              !.typescriptFunction = None,
              !.typescriptArgs = <<>>]

\* the local isOptionsObject of runTypeScript
isOptionsObject(value) ==
    /\ value.t = "object"
    /\ ("nodeVersion" \in value.keys \/ Cardinality(value.keys) = 0)

\* variant: the options object left among the arguments
StepRunTypeScript_KeepsOptions(s, fn, params, stack) ==
    [s EXCEPT !.typescriptFunction = Some(fn),
              !.typescriptArgs = params,
              !.typescriptOptions =
                  IF params # <<>> /\ isOptionsObject(params[1])
                  THEN Some(params[1]) ELSE None,
              !.typescriptStackTrace = Some(stack),
              !.run = None,
              !.uses = None,
              !.with = None,
              !.currentActionRef = None]

\* runTypeScript(fn, optionsOrArg?, ...restArgs), params = what follows fn
StepRunTypeScript(s, fn, params, stack) ==
    LET hasOptions == params # <<>> /\ isOptionsObject(params[1])
        options == IF hasOptions THEN Some(params[1]) ELSE None
        rest == IF hasOptions THEN Tail(params) ELSE params
    IN  [s EXCEPT !.typescriptFunction = Some(fn),
                  !.typescriptArgs = rest,
                  !.typescriptOptions = options,
                  !.typescriptStackTrace = Some(stack),
                  !.run = None,
                  !.uses = None,
                  !.with = None,
                  !.currentActionRef = None]

\* withInputs(inputs) / with(inputs); validateActionInputs only warns
StepWith(s, inputs) == [s EXCEPT !.with = Some(Spread(s.with, inputs))]

StepEnv(s, variables) == [s EXCEPT !.env = Some(Spread(s.env, variables))]

StepContinueOnError(s, b) == [s EXCEPT !.continueOnError = Some(b)]

StepTimeoutMinutes(s, minutes) == [s EXCEPT !.timeoutMinutes = Some(minutes)]

\* ifCondition(condition) / if(condition)
StepIf(s, condition) == [s EXCEPT !.if = Some(condition)]

StepWorkingDirectory(s, directory) ==
    [s EXCEPT !.workingDirectory = Some(directory)]

\* _getTypeScriptFunction(): null unless a function is stored
GetTypeScriptFunction(s) ==
    IF IsSome(s.typescriptFunction)
    THEN Some([ fn |-> Get(s.typescriptFunction),
                args |-> s.typescriptArgs,
                options |-> s.typescriptOptions,
                stackTrace |-> s.typescriptStackTrace ])
    ELSE None

\* the guard of toJSON: this.step.uses && this.step.run
ToJSONThrows(s) == TruthyStr(s.uses) /\ TruthyText(s.run)

\* toJSON(): a copy of the internal record, or the 'Invalid step' error
ToJSON(s) ==
    IF ToJSONThrows(s)
    THEN [ threw |-> TRUE, error |-> "Invalid step",
           id |-> None, name |-> None, uses |-> None, run |-> None,
           with |-> None, env |-> None, if |-> None,
           continueOnError |-> None, timeoutMinutes |-> None,
           workingDirectory |-> None ]
    ELSE [ threw |-> FALSE, error |-> "",
           id |-> s.id, name |-> s.name, uses |-> s.uses, run |-> s.run,
           with |-> s.with, env |-> s.env, if |-> s.if,
           continueOnError |-> s.continueOnError,
           timeoutMinutes |-> s.timeoutMinutes,
           workingDirectory |-> s.workingDirectory ]

----------------------------------------------------------------------------
(* Text: a string kept as the sequence of its lines *)

NL == <<"", "">>

\* the character that opens and closes a JavaScript template literal
Backtick == SubSeq("`'", 1, 1)

\* string concatenation a + b on texts
TextCat(a, b) ==
    SubSeq(a, 1, Len(a) - 1) \o <<a[Len(a)] \o b[1]>> \o Tail(b)

\* lines.join("\n")
JoinLines(lines) == IF lines = <<>> THEN EmptyText ELSE lines

\* parts.join(", ")
RECURSIVE JoinComma(_)
JoinComma(parts) ==
    IF parts = <<>> THEN ""
    ELSE IF Len(parts) = 1 THEN parts[1]
    ELSE parts[1] \o ", " \o JoinComma(Tail(parts))

\* variant: the lines are joined as they are
IndentLines_AsTheyAre(code) == code

\* code.split("\n").map((line) =>   ${line}).join("\n")
IndentLines(code) == [i \in 1..Len(code) |-> "  " \o code[i]]

----------------------------------------------------------------------------
(* argument-processor.ts *)

IsWhitespace(c) == c \in {" ", "\t"}

CharAt(s, i) == SubSeq(s, i, i)

\* GITHUB_EXPRESSION_REGEX = /\$\{\{\s*[^}]+\s*\}\}/ tested anywhere in s
GitHubExpressionRegexTest(s) ==
    \E i \in 1..Len(s) :
        /\ i + 2 <= Len(s)
        /\ SubSeq(s, i, i + 2) = "${{"
        /\ \E a \in (i + 3)..(Len(s) + 1) :      \* a: first char of [^}]+
              /\ \A k \in (i + 3)..(a - 1) : IsWhitespace(CharAt(s, k))
              /\ \E b \in (a + 1)..(Len(s) + 1) : \* b: first char after it
                    /\ \A k \in a..(b - 1) : CharAt(s, k) # "}"
                    /\ \E c \in b..(Len(s) - 1) : \* c: start of "}}"
                          /\ \A k \in b..(c - 1) : IsWhitespace(CharAt(s, k))
                          /\ SubSeq(s, c, c + 1) = "}}"

isGitHubExpression(value) ==
    IF value.t # "string" THEN FALSE ELSE GitHubExpressionRegexTest(value.s)

\* JSON.stringify of a string without quotes, backslashes or control chars
JSONStringify(s) == "\"" \o s \o "\""

\* serializeArgument(arg, "typescript")
serializeArgument(arg) ==
    IF arg.t = "string" THEN JSONStringify(arg.s)
    ELSE IF arg.t = "number" THEN ToString(arg.n)
    ELSE IF arg.t = "boolean" THEN (IF arg.b THEN "true" ELSE "false")
    ELSE "[object Object]"

\* GITHUB_EXPR_${index}.toUpperCase().replace(/[^A-Z0-9_]/g, "_")
EnvVarName(index) == "GITHUB_EXPR_" \o ToString(index)

\* processGitHubExpression(expression, index, "typescript")
processGitHubExpression(expression, index) ==
    "process.env." \o EnvVarName(index) \o " || " \o JSONStringify(expression.s)

\* processArguments(args, "typescript"); index is zero-based
processArguments(as) ==
    [i \in 1..Len(as) |->
        IF isGitHubExpression(as[i])
        THEN processGitHubExpression(as[i], i - 1)
        ELSE serializeArgument(as[i])]

\* the line generateEnvVarCode pushes for the argument at zero-based index
EnvVarLine(arg, index) ==
    "const " \o EnvVarName(index) \o " = process.env." \o EnvVarName(index)
        \o " || " \o JSONStringify(arg.s) \o ";"

RECURSIVE EnvVarLinesFrom(_, _)
EnvVarLinesFrom(as, i) ==
    IF i > Len(as) THEN <<>>
    ELSE (IF isGitHubExpression(as[i])
          THEN <<EnvVarLine(as[i], i - 1)>> ELSE <<>>)
         \o EnvVarLinesFrom(as, i + 1)

\* variant: names numbered by a counter of deferred arguments, not by position
EnvVarLines_Counter(as) ==
    LET deferred == SelectSeq(as, isGitHubExpression)
    IN  [k \in 1..Len(deferred) |-> EnvVarLine(deferred[k], k - 1)]

\* generateEnvVarCode(args, "typescript"): the pushed lines, in push order
EnvVarLines(as) == EnvVarLinesFrom(as, 1)

generateEnvVarCode(as) == JoinLines(EnvVarLines(as))

\* getFunctionIdentifier / getFunctionIdentifierFromSource helpers:
\* \w, and the end of the \w+ run that starts at position i of line s
WordChars ==
    { "a", "b", "c", "d", "e", "f", "g", "h", "i", "j", "k", "l", "m",
      "n", "o", "p", "q", "r", "s", "t", "u", "v", "w", "x", "y", "z",
      "A", "B", "C", "D", "E", "F", "G", "H", "I", "J", "K", "L", "M",
      "N", "O", "P", "Q", "R", "S", "T", "U", "V", "W", "X", "Y", "Z",
      "0", "1", "2", "3", "4", "5", "6", "7", "8", "9", "_" }

IsWordChar(c) == c \in WordChars

RECURSIVE WordEnd(_, _)
WordEnd(s, i) ==
    IF i <= Len(s) /\ IsWordChar(CharAt(s, i)) THEN WordEnd(s, i + 1) ELSE i

\* first index >= i of line s that holds no whitespace (Len(s)+1 if none)
RECURSIVE SkipSpaces(_, _)
SkipSpaces(s, i) ==
    IF i <= Len(s) /\ IsWhitespace(CharAt(s, i)) THEN SkipSpaces(s, i + 1) ELSE i

\* does keyword kw stand at position j of line s
KeywordAt(s, j, kw) ==
    j + Len(kw) - 1 <= Len(s) /\ SubSeq(s, j, j + Len(kw) - 1) = kw

\* /function\s+(\w+)/ at position j of line s: the captured name, if any
FunctionDeclAt(s, j) ==
    IF ~KeywordAt(s, j, "function") THEN None
    ELSE LET w == SkipSpaces(s, j + 8)
             e == WordEnd(s, w)
         IN  IF w > j + 8 /\ e > w THEN Some(SubSeq(s, w, e - 1)) ELSE None

\* /const\s+(\w+)\s*=\s*(?:async\s*)?\(/ at position j of line s
ConstArrowAt(s, j) ==
    IF ~KeywordAt(s, j, "const") THEN None
    ELSE LET w == SkipSpaces(s, j + 5)
             e == WordEnd(s, w)
             q == SkipSpaces(s, e)
             a == SkipSpaces(s, q + 1)
             p == IF KeywordAt(s, a, "async") THEN SkipSpaces(s, a + 5) ELSE a
         IN  IF /\ w > j + 5 /\ e > w
                /\ q <= Len(s) /\ CharAt(s, q) = "="
                /\ p <= Len(s) /\ CharAt(s, p) = "("
             THEN Some(SubSeq(s, w, e - 1))
             ELSE None

\* one attempt of the named pattern at position j of line s
MatchAt(pattern, s, j) ==
    IF pattern = "function" THEN FunctionDeclAt(s, j) ELSE ConstArrowAt(s, j)

\* the capture of the leftmost match of the pattern in line s
LineCapture(pattern, s) ==
    LET hits == { j \in 1..Len(s) : MatchAt(pattern, s, j) # None }
    IN  IF hits = {} THEN None
        ELSE MatchAt(pattern, s, CHOOSE j \in hits : \A k \in hits : j <= k)

\* String.prototype.match: the capture of the leftmost match in the source
RECURSIVE FirstCaptureFrom(_, _, _)
FirstCaptureFrom(text, l, pattern) ==
    IF l > Len(text) THEN None
    ELSE LET here == LineCapture(pattern, text[l])
         IN  IF here # None THEN here
             ELSE FirstCaptureFrom(text, l + 1, pattern)

FirstCapture(text, pattern) == FirstCaptureFrom(text, 1, pattern)

\* getFunctionIdentifier(source) of argument-processor.ts
getFunctionIdentifier(source) ==
    LET decl == FirstCapture(source, "function")
        arrow == FirstCapture(source, "const")
    IN  IF decl # None THEN <<Get(decl)>>
        ELSE IF arrow # None THEN <<Get(arrow)>>
        ELSE TextCat(TextCat(<<"(function() { return ">>, source), <<"; })()">>)

\* generateFunctionCallCode(functionSource, processedArgs, "typescript")
generateFunctionCallCode(functionSource, pargs) ==
    TextCat(TextCat(NL, functionSource),
        TextCat(
            TextCat(
                TextCat(<<"", "", "// Execute the function",
                          "(async () => {",
                          "  try {",
                          "    const result = await (">>,
                        getFunctionIdentifier(functionSource)),
                <<"(" \o JoinComma(pargs) \o "));">>),
            <<"",
              "    if (result !== undefined) {",
              "      console.log(result);",
              "    }",
              "    process.exit(0);",
              "  } catch (error) {",
              "    console.error(\"Error executing function:\", error);",
              "    if (error instanceof Error) {",
              "      console.error(\"Stack trace:\", error.stack);",
              "    }",
              "    process.exit(1);",
              "  }",
              "})();",
              "">>))

----------------------------------------------------------------------------
(* typescript-transpiler.ts *)

\* getFunctionIdentifierFromSource(source): a name, or the wrapped fallback
getFunctionIdentifierFromSource(source) ==
    LET decl == FirstCapture(source, "function")
        arrow == FirstCapture(source, "const")
    IN  IF decl # None THEN <<Get(decl)>>
        ELSE IF arrow # None THEN <<Get(arrow)>>
        ELSE TextCat(TextCat(<<"(function() { ">>, source), <<" })()">>)

\* functionIdentifier.startsWith("(function()")
IsWrappedFunction(identifier) == KeywordAt(identifier[1], 1, "(function()")

\* the entry module handed to the bundler
EntryCode(functionSource, envCode) ==
    LET functionIdentifier == getFunctionIdentifierFromSource(functionSource)
    IN  IF IsWrappedFunction(functionIdentifier)
        THEN TextCat(TextCat(NL, envCode),
               TextCat(TextCat(<<"", "", "// Export the function",
                                 "module.exports = ">>, functionSource),
                       <<";", "">>))
        ELSE TextCat(TextCat(NL, envCode),
               TextCat(TextCat(<<"", "", "">>, functionSource),
                 TextCat(TextCat(<<"", "", "// Export function for execution",
                                   "module.exports = ">>, functionIdentifier),
                         <<";", "">>)))

\* wrapWithErrorHandler(code, sourceFile), after .trim()
wrapWithErrorHandler(code) ==
    <<"// Enhanced error handling with source map support",
      "const originalError = Error;",
      "Error.prepareStackTrace = function(error, stack) {",
      "  // Try to map stack traces back to original source",
      "  return stack.map(frame => {",
      "    const fileName = frame.getFileName();",
      "    const lineNumber = frame.getLineNumber();",
      "    const columnNumber = frame.getColumnNumber();",
      "    const functionName = frame.getFunctionName();",
      "    ",
      "    // Provide clear error context",
      "    return " \o Backtick
          \o "    at ${functionName || '<anonymous>'} (${fileName}:${lineNumber}:${columnNumber})"
          \o Backtick \o ";",
      "  }).join('\\n');",
      "};",
      "",
      "try {">>
    \o IndentLines(code)
    \o <<"} catch (error) {",
         "  console.error(\"Error in TypeScript function:\", error.message);",
         "  if (error.stack) {",
         "    console.error(\"Stack trace:\");",
         "    console.error(error.stack);",
         "  }",
         "  process.exit(1);",
         "}">>

\* generateFunctionCallCodeForCJS(bundledCode, processedArgs, ...), trimmed
generateFunctionCallCodeForCJS(bundledCode, pargs) ==
    TextCat(
        TextCat(<<"// Create module object for CommonJS compatibility",
                  "const module = { exports: {} };",
                  "const exports = module.exports;",
                  "",
                  "">>, bundledCode),
        <<"", "",
          "// Execute the function",
          "(async () => {",
          "  try {",
          "    const fn = module.exports;",
          "    ",
          "    if (!fn || typeof fn !== 'function') {",
          "      throw new Error('Function not found in bundle. Expected module.exports to contain a function.');",
          "    }",
          "    ",
          "    const result = await fn(" \o JoinComma(pargs) \o ");",
          "    if (result !== undefined) {",
          "      console.log(result);",
          "    }",
          "    process.exit(0);",
          "  } catch (error) {",
          "    console.error(\"Error executing function:\", error);",
          "    if (error instanceof Error) {",
          "      console.error(\"Stack trace:\", error.stack);",
          "    }",
          "    process.exit(1);",
          "  }",
          "})();">>)

\* esbuild's output file for an entry module (external tool): the banner,
\* the entry's non-blank lines and the inline source map
EsbuildOutput(entry) ==
    <<"// Error handling wrapper",
      "const originalConsoleError = console.error;",
      "console.error = function(...args) {",
      "  originalConsoleError.apply(console, args);",
      "};">>
    \o SelectSeq(entry, LAMBDA l : l # "")
    \o <<"//# sourceMappingURL=data:application/json;base64,e30=", "">>

\* ts.transpileModule(functionSource).outputText (external tool): the
\* emitted function followed by the inline source map
TranspileModuleOutput(functionSource) ==
    functionSource \o <<"//# sourceMappingURL=data:application/json;base64,e30=">>

\* the code the bundling path returns once esbuild.build has succeeded
BundledCode(functionSource, pargs, envCode) ==
    wrapWithErrorHandler(
        generateFunctionCallCodeForCJS(
            EsbuildOutput(EntryCode(functionSource, envCode)), pargs))

\* transpileWithoutBundling(...).code
transpileWithoutBundling(functionSource, pargs, envCode) ==
    wrapWithErrorHandler(
        TextCat(TextCat(NL, envCode),
            TextCat(<<"", "", "">>,
                TextCat(generateFunctionCallCode(
                            TranspileModuleOutput(functionSource), pargs),
                        NL))))

\* variant: the heredoc opened with the delimiter unquoted
wrapJavaScriptForShell_Unquoted(jsCode) ==
    <<"node << TS_ACTIONS_EOF">> \o jsCode \o <<"TS_ACTIONS_EOF">>

\* wrapJavaScriptForShell(jsCode)
wrapJavaScriptForShell(jsCode) ==
    <<"node << 'TS_ACTIONS_EOF'">> \o jsCode \o <<"TS_ACTIONS_EOF">>

----------------------------------------------------------------------------
(* setup-detector.ts.  A step list is a sequence of object ids into the    *)
(* heap hp of Step objects.                                                *)

DefaultNodeVersion == "24"

\* tsFunction.options?.nodeVersion || "24"
NodeVersionOf(options) ==
    IF IsSome(options) /\ "nodeVersion" \in Get(options).keys
                       /\ Get(options).s # ""
    THEN Get(options).s
    ELSE DefaultNodeVersion

RECURSIVE NodeRequirementFrom(_, _, _, _)
NodeRequirementFrom(hp, steps, i, acc) ==
    IF i > Len(steps) THEN acc
    ELSE NodeRequirementFrom(hp, steps, i + 1,
            IF IsSome(GetTypeScriptFunction(hp[steps[i]]))
            THEN [needsNode |-> TRUE,
                  nodeVersion |->
                      NodeVersionOf(Get(GetTypeScriptFunction(hp[steps[i]])).options)]
            ELSE acc)

\* variant: the version of the first function step kept
getNodeSetupRequirement_First(hp, steps) ==
    LET fs == { i \in 1..Len(steps) : IsSome(GetTypeScriptFunction(hp[steps[i]])) }
    IN  IF fs = {} THEN [needsNode |-> FALSE, nodeVersion |-> DefaultNodeVersion]
        ELSE LET i == CHOOSE k \in fs : \A l \in fs : k <= l
             IN  [needsNode |-> TRUE,
                  nodeVersion |->
                      NodeVersionOf(Get(GetTypeScriptFunction(hp[steps[i]])).options)]

\* getNodeSetupRequirement(stepInstances)
getNodeSetupRequirement(hp, steps) ==
    NodeRequirementFrom(hp, steps, 1,
        [needsNode |-> FALSE, nodeVersion |-> DefaultNodeVersion])

\* variant: the reference compared with the bare action name
UsesSetupNode_ExactRef(s) ==
    IsSome(ToJSON(s).uses) /\ Get(ToJSON(s).uses) = "actions/setup-node"

\* stepJson.uses?.includes("actions/setup-node")
UsesSetupNode(s) ==
    IsSome(ToJSON(s).uses) /\ Includes(Get(ToJSON(s).uses), "actions/setup-node")

\* the steps of all jobs, in the iteration order of the two loops
RECURSIVE StepsOfJobs(_)
StepsOfJobs(jbs) ==
    IF jbs = <<>> THEN <<>> ELSE Head(jbs) \o StepsOfJobs(Tail(jbs))

\* the loop body of detectRequiredSetupActions, from step i on
RECURSIVE DetectFrom(_, _, _, _)
DetectFrom(steps, i, needsNode, nodeVersion) ==
    IF i > Len(steps) THEN [needsNode |-> needsNode, nodeVersion |-> nodeVersion]
    ELSE LET tsFunction == GetTypeScriptFunction(steps[i])
             needs1 == IF IsSome(tsFunction) THEN TRUE ELSE needsNode
             version1 == IF IsSome(tsFunction)
                         THEN NodeVersionOf(Get(tsFunction).options)
                         ELSE nodeVersion
             needs2 == IF UsesSetupNode(steps[i]) THEN FALSE ELSE needs1
         IN  DetectFrom(steps, i + 1, needs2, version1)

\* detectRequiredSetupActions(workflow): the list of required setup actions
detectRequiredSetupActions(jbs) ==
    LET r == DetectFrom(StepsOfJobs(jbs), 1, FALSE, DefaultNodeVersion)
    IN  IF r.needsNode
        THEN << [action |-> "actions/setup-node@v4",
                 with |-> ("node-version" :> r.nodeVersion)] >>
        ELSE <<>>

\* hasSetupNode(stepInstances)
hasSetupNode(hp, steps) == \E i \in 1..Len(steps) : UsesSetupNode(hp[steps[i]])

\* new Step().name("Setup Node.js").uses(setupNodeAction).with({...})
SetupNodeStep(nodeVersion) ==
    StepWith(StepUses(StepName(NewStep, "Setup Node.js"), "actions/setup-node@v4"),
             ("node-version" :> nodeVersion))

\* createSetupSteps(needsNode, hasSetupNode, nodeVersion)
createSetupSteps(needsNode, jobHasSetupNode, nodeVersion) ==
    IF needsNode /\ ~jobHasSetupNode
    THEN <<SetupNodeStep(nodeVersion)>>
    ELSE <<>>

\* variant: a setup-node step anywhere in the workflow satisfies every job
NewSetupSteps_WorkflowWide(hp, jbs, j) ==
    createSetupSteps(getNodeSetupRequirement(hp, jbs[j].steps).needsNode,
                     \E k \in 1..Len(jbs) : hasSetupNode(hp, jbs[k].steps),
                     getNodeSetupRequirement(hp, jbs[j].steps).nodeVersion)

\* the setup steps addSetupActionsToWorkflow creates for job j
NewSetupSteps(hp, jbs, j) ==
    createSetupSteps(getNodeSetupRequirement(hp, jbs[j].steps).needsNode,
                     hasSetupNode(hp, jbs[j].steps),
                     getNodeSetupRequirement(hp, jbs[j].steps).nodeVersion)

\* variant: the new steps put after the job's steps
WithSetupSteps_Append(base, newSteps, steps) ==
    steps \o [k \in 1..Len(newSteps) |-> base + k]

\* job._setStepInstances([...newSteps, ...stepInstances]), the new Step
\* objects being allocated at ids base+1..
WithSetupSteps(base, newSteps, steps) ==
    [k \in 1..Len(newSteps) |-> base + k] \o steps

RECURSIVE AddSetupFrom(_, _, _)
AddSetupFrom(hp, jbs, j) ==
    IF j > Len(jbs) THEN [heap |-> hp, jobs |-> jbs]
    ELSE LET newSteps == NewSetupSteps(hp, jbs, j)
         IN  IF Len(newSteps) > 0
             THEN AddSetupFrom(hp \o newSteps,
                      [jbs EXCEPT ![j].steps =
                          WithSetupSteps(Len(hp), newSteps, jbs[j].steps)],
                      j + 1)
             ELSE AddSetupFrom(hp, jbs, j + 1)

\* addSetupActionsToWorkflow(workflow): the heap and the jobs afterwards
addSetupActionsToWorkflow(hp, jbs) == AddSetupFrom(hp, jbs, 1)

----------------------------------------------------------------------------
(* workflow-processor.ts and function-extractor.ts *)

\* what extraction can come to: parseStackTrace found no location,
\* findFunctionInAST found no node, something threw inside the try block
ExtractionOutcomes == {"extracted", "no-location", "no-node", "exception"}

\* the source the AST printer yields for each function of the workflow file
SourceOf(fn) ==
    IF fn = "processData"
    THEN <<"function processData(data, threshold) {",
           "    console.log(" \o Backtick
               \o "Value ${data} exceeds threshold ${threshold}" \o Backtick \o ");",
           "}">>
    ELSE <<"() => {",
           "    console.log(\"Hello, world!\");",
           "}">>

\* extractTypeScriptFunction(fn, stackTrace): null on every failure, the
\* catch block turning an exception into null as well
extractTypeScriptFunction(fn, outcome) ==
    IF outcome = "extracted"
    THEN Some([source |-> SourceOf(fn), functionName |-> fn])
    ELSE None

\* the envVars loop of processTypeScriptStep: GITHUB_EXPR_<index> for every
\* string argument that includes "${{"
RECURSIVE ExprEnvFrom(_, _, _)
ExprEnvFrom(as, i, acc) ==
    IF i > Len(as) THEN acc
    ELSE ExprEnvFrom(as, i + 1,
            IF as[i].t = "string" /\ Includes(as[i].s, "${{")
            THEN (("GITHUB_EXPR_" \o ToString(i - 1)) :> as[i].s) @@ acc
            ELSE acc)

\* Object.keys(envVars).length > 0 ? newStep.env(envVars) : newStep
WithExprEnv(ns, stepJson, as) ==
    LET envVars == ExprEnvFrom(as, 1,
                       IF TruthyMap(stepJson.env) THEN Get(stepJson.env) ELSE <<>>)
    IN  IF DOMAIN envVars # {} THEN StepEnv(ns, envVars) ELSE ns

\* variant: the function step's uses is copied to the new step as well
NewCommandStep_CopiesUses(stepJson, as, code) ==
    IF TruthyStr(stepJson.uses)
    THEN StepUses(StepRun(NewStep, wrapJavaScriptForShell(code)), Get(stepJson.uses))
    ELSE StepRun(NewStep, wrapJavaScriptForShell(code))

\* the new Step processTypeScriptStep builds from the function step's JSON
\* and the transpiled code
NewCommandStep(stepJson, as, code) ==
    LET s1 == IF TruthyStr(stepJson.name)
              THEN StepName(NewStep, Get(stepJson.name)) ELSE NewStep
        s2 == IF TruthyStr(stepJson.id) THEN StepId(s1, Get(stepJson.id)) ELSE s1
        s3 == IF TruthyMap(stepJson.env) THEN StepEnv(s2, Get(stepJson.env)) ELSE s2
        s4 == IF TruthyStr(stepJson.if) THEN StepIf(s3, Get(stepJson.if)) ELSE s3
        s5 == IF TruthyBool(stepJson.continueOnError)
              THEN StepContinueOnError(s4, Get(stepJson.continueOnError)) ELSE s4
        s6 == IF TruthyNum(stepJson.timeoutMinutes)
              THEN StepTimeoutMinutes(s5, Get(stepJson.timeoutMinutes)) ELSE s5
        s7 == IF TruthyStr(stepJson.workingDirectory)
              THEN StepWorkingDirectory(s6, Get(stepJson.workingDirectory)) ELSE s6
    IN  StepRun(WithExprEnv(s7, stepJson, as), wrapJavaScriptForShell(code))

----------------------------------------------------------------------------
(* Inputs of the builder calls *)

MaxCalls == 3

CheckoutRef == "actions/checkout@v4"
SetupNodeRef == "actions/setup-node@v4"
SetupNodeNeedle == "actions/setup-node"

ActionRefs == {CheckoutRef, SetupNodeRef}
Commands == {<<"npm ci">>, EmptyText}
StepIds == {"s1"}
StepNames == {"Build"}
Conditions == {"always()"}
Directories == {"app"}
Timeouts == {5}
EnvMaps == {("CI" :> "true")}
WithMaps == {("node-version" :> "20")}
Functions == {"processData"}
CallSites == {"workflow.ts:12"}
ParamLists ==
    { <<>>,
      <<Str("100")>>,
      <<Obj({"nodeVersion"}, "20"), Str("${{ github.sha }}")>> }

----------------------------------------------------------------------------
(* StepSpec: builder calls on one Step *)

StepIdle ==
    /\ step = NewStep
    /\ calls = 0
    /\ lastCall = "new"

ArgsIdle ==
    /\ args = <<>>
    /\ processedArgs = None
    /\ envVarCode = None

TpIdle ==
    [pc |-> "idle", imports |-> 0, builds |-> 0, fallbacks |-> 0,
     bundlerFailed |-> FALSE, source |-> EmptyText, code |-> None]

SynthIdle ==
    /\ heap = <<>>
    /\ jobs = <<>>
    /\ pc = "idle"
    /\ ji = 0
    /\ si = 0
    /\ processedSteps = <<>>
    /\ tp = TpIdle
    /\ log = <<>>
    /\ setupRuns = 0
    /\ afterSetup = None
    /\ initial = None
    /\ pre = None
    /\ extractionFailed = FALSE

\* no driver has been started
DrvIdle ==
    [pc |-> "idle", path |-> "bundled", exported |-> "function",
     moduleThrows |-> FALSE, behaviour |-> "returns", result |-> "undefined",
     thrown |-> "Error", invoked |-> FALSE, error |-> None,
     stdout |-> <<>>, stderr |-> <<>>, exitCode |-> None]

\* wrapJavaScriptForShell has not been called
ShIdle ==
    /\ script = EmptyText
    /\ origin = "direct"
    /\ runCommand = None
    /\ stdin = None
    /\ leftover = <<>>

\* no single function is under test
\* parseStackTrace has not been called
LocIdle ==
    /\ trace = <<>>
    /\ located = <<>>

\* findFunctionInAST has not been called
FindIdle ==
    /\ ast = <<>>
    /\ fnName = ""
    /\ targetLine = 0
    /\ foundNode = <<>>

\* no call of runTypeScript is being followed
CallIdle ==
    /\ given = <<>>
    /\ callCode = <<>>

\* processTypeScriptStep has not been called on its own
CopyIdle == replacement = <<>>

\* no job has been made
NeedsIdle ==
    /\ jobObjects = <<>>
    /\ configJobs = {}
    /\ needsResult = <<>>
    /\ jobCalls = 0

\* no workflow has been handed to detectRequiredSetupActions
DetectIdle ==
    /\ detectJobs = <<>>
    /\ requiredSetup = <<>>

\* no reference has been handed to fetchActionYml
FetchIdle ==
    /\ fetchPc = "idle"
    /\ ymlResponse = <<>>
    /\ yamlResponse = <<>>
    /\ fetched = <<>>
    /\ fetchResult = <<>>

\* no action has been imported
RegistryIdle ==
    /\ registry = <<>>
    /\ savedRefs = {}
    /\ regClock = 0
    /\ lastSave = <<>>
    /\ importedAnswer = <<>>

UnitsIdle == ShIdle /\ LocIdle /\ FindIdle /\ CallIdle /\ CopyIdle /\ NeedsIdle /\ DetectIdle /\ FetchIdle /\ RegistryIdle
ShRestIdle == LocIdle /\ FindIdle /\ CallIdle /\ CopyIdle /\ NeedsIdle /\ DetectIdle /\ FetchIdle /\ RegistryIdle
LocRestIdle == ShIdle /\ FindIdle /\ CallIdle /\ CopyIdle /\ NeedsIdle /\ DetectIdle /\ FetchIdle /\ RegistryIdle
FindRestIdle == ShIdle /\ LocIdle /\ CallIdle /\ CopyIdle /\ NeedsIdle /\ DetectIdle /\ FetchIdle /\ RegistryIdle
CallRestIdle == ShIdle /\ LocIdle /\ FindIdle /\ CopyIdle /\ NeedsIdle /\ DetectIdle /\ FetchIdle /\ RegistryIdle
CopyRestIdle == ShIdle /\ LocIdle /\ FindIdle /\ CallIdle /\ NeedsIdle /\ DetectIdle /\ FetchIdle /\ RegistryIdle
NeedsRestIdle == ShIdle /\ LocIdle /\ FindIdle /\ CallIdle /\ CopyIdle /\ DetectIdle /\ FetchIdle /\ RegistryIdle
DetectRestIdle == ShIdle /\ LocIdle /\ FindIdle /\ CallIdle /\ CopyIdle /\ NeedsIdle /\ FetchIdle /\ RegistryIdle
FetchRestIdle == ShIdle /\ LocIdle /\ FindIdle /\ CallIdle /\ CopyIdle /\ NeedsIdle /\ DetectIdle /\ RegistryIdle
RegistryRestIdle == ShIdle /\ LocIdle /\ FindIdle /\ CallIdle /\ CopyIdle /\ NeedsIdle /\ DetectIdle /\ FetchIdle

StepInit ==
    /\ StepIdle
    /\ ArgsIdle
    /\ SynthIdle
    /\ drv = DrvIdle
    /\ UnitsIdle

Called(name) ==
    /\ calls < MaxCalls
    /\ calls' = calls + 1
    /\ lastCall' = name
    /\ UNCHANGED <<argVars, synthVars, drvVars, unitVars>>

CallId == \E v \in StepIds : step' = StepId(step, v) /\ Called("id")

CallName == \E v \in StepNames : step' = StepName(step, v) /\ Called("name")

CallUses == \E r \in ActionRefs : step' = StepUses(step, r) /\ Called("uses")

CallRun == \E c \in Commands : step' = StepRun(step, c) /\ Called("run")

CallRunTypeScript ==
    \E fn \in Functions, params \in ParamLists, site \in CallSites :
        /\ step' = StepRunTypeScript(step, fn, params, site)
        /\ Called("runTypeScript")

CallWith == \E m \in WithMaps : step' = StepWith(step, m) /\ Called("with")

CallEnv == \E m \in EnvMaps : step' = StepEnv(step, m) /\ Called("env")

CallIf == \E c \in Conditions : step' = StepIf(step, c) /\ Called("if")

CallContinueOnError ==
    \E b \in BOOLEAN :
        step' = StepContinueOnError(step, b) /\ Called("continueOnError")

CallTimeoutMinutes ==
    \E m \in Timeouts :
        step' = StepTimeoutMinutes(step, m) /\ Called("timeoutMinutes")

CallWorkingDirectory ==
    \E d \in Directories :
        step' = StepWorkingDirectory(step, d) /\ Called("workingDirectory")

\* the test's cast: the private record replaced by { uses, run }
SetRecordDirectly ==
    \E r \in ActionRefs, c \in Commands :
        /\ step' = [step EXCEPT !.id = None, !.name = None, !.with = None,
                                !.env = None, !.if = None,
                                !.continueOnError = None,
                                !.timeoutMinutes = None,
                                !.workingDirectory = None,
                                !.uses = Some(r), !.run = Some(c)]
        /\ Called("direct")

StepNext ==
    \/ CallId
    \/ CallName
    \/ CallUses
    \/ CallRun
    \/ CallRunTypeScript
    \/ CallWith
    \/ CallEnv
    \/ CallIf
    \/ CallContinueOnError
    \/ CallTimeoutMinutes
    \/ CallWorkingDirectory
    \/ SetRecordDirectly

StepSpec == StepInit /\ [][StepNext]_vars

\* KindSpec: the calls that make a step an action step, a script step or a
\* function step, in any order, and between them setters of other fields
KindNext ==
    \/ CallUses
    \/ CallRun
    \/ CallRunTypeScript
    \/ CallWith
    \/ CallId
    \/ CallName

KindSpec == StepInit /\ [][KindNext]_vars

----------------------------------------------------------------------------
(* ArgsSpec: the argument marshaling of transpileTypeScriptFunction *)

MaxArgs == 3

ArgValues ==
    { Str("100"), Num(50), Bool(TRUE),
      Str("${{ github.sha }}"), Str("v${{ x }}"), Str("${{}}") }

RECURSIVE SeqsUpTo(_, _)
SeqsUpTo(S, n) ==
    IF n = 0 THEN {<<>>}
    ELSE LET shorter == SeqsUpTo(S, n - 1)
         IN  shorter \cup {Append(q, v) : q \in shorter, v \in S}

ArgsInit ==
    /\ StepIdle
    /\ SynthIdle
    /\ drv = DrvIdle
    /\ UnitsIdle
    /\ args \in SeqsUpTo(ArgValues, MaxArgs)
    /\ processedArgs = None
    /\ envVarCode = None

\* const processedArgs = processArguments(args, "typescript")
CallProcessArguments ==
    /\ processedArgs = None
    /\ processedArgs' = Some(processArguments(args))
    /\ UNCHANGED <<args, envVarCode, stepVars, synthVars, drvVars, unitVars>>

\* const envVarCode = generateEnvVarCode(args, "typescript")
CallGenerateEnvVarCode ==
    /\ processedArgs # None
    /\ envVarCode = None
    /\ envVarCode' = Some(generateEnvVarCode(args))
    /\ UNCHANGED <<args, processedArgs, stepVars, synthVars, drvVars, unitVars>>

ArgsNext ==
    \/ CallProcessArguments
    \/ CallGenerateEnvVarCode

ArgsSpec == ArgsInit /\ [][ArgsNext]_vars

----------------------------------------------------------------------------
(* Spec: a workflow built with the builder, then addSetupActionsToWorkflow *)
(* and processWorkflowSteps                                                *)

MaxSteps == 2
MaxSetupRuns == 2

JobIds == <<"build", "test">>

\* the steps a workflow file builds, each by builder calls on a new Step
StepTemplates ==
    { StepRun(StepName(NewStep, "Build"), <<"npm ci">>),
      StepUses(NewStep, CheckoutRef),
      StepWith(StepUses(NewStep, SetupNodeRef), ("node-version" :> "20")),
      StepRunTypeScript(StepName(NewStep, "Process"), "processData",
                        <<Str("100"), Num(50)>>, "workflow.ts:12"),
      StepRunTypeScript(StepEnv(NewStep, ("CI" :> "true")), "hello",
                        <<Obj({"nodeVersion"}, "20"), Str("${{ github.sha }}")>>,
                        "workflow.ts:20"),
      StepWith(StepUses(StepRunTypeScript(NewStep, "hello", <<>>, "workflow.ts:30"),
                        CheckoutRef), ("ref" :> "main")) }

\* object ids are given in the order in which the objects are first added
CanonicalIds(f, m) ==
    /\ \A o \in 1..m : \E i \in DOMAIN f : f[i] = o
    /\ \A i \in DOMAIN f : \A o \in 1..(f[i] - 1) : \E k \in 1..(i - 1) : f[k] = o

Init ==
    /\ StepIdle
    /\ ArgsIdle
    /\ drv = DrvIdle
    /\ UnitsIdle
    /\ \E m \in 0..MaxSteps, n \in 0..MaxSteps :
         /\ m <= n
         /\ \E h \in [1..m -> StepTemplates], f \in [1..n -> 1..m], k \in 0..n :
              /\ CanonicalIds(f, m)
              /\ heap = h
              /\ jobs = << [id |-> JobIds[1], steps |-> SubSeq(f, 1, k)],
                           [id |-> JobIds[2], steps |-> SubSeq(f, k + 1, n)] >>
    /\ pc = "built"
    /\ ji = 0
    /\ si = 0
    /\ processedSteps = <<>>
    /\ tp = TpIdle
    /\ log = <<>>
    /\ setupRuns = 0
    /\ afterSetup = None
    /\ initial = Some([heap |-> heap, jobs |-> jobs])
    /\ pre = None
    /\ extractionFailed = FALSE

\* the for loop over the jobs reaching job j: a job without steps gets its
\* (empty) processedSteps at once, the first job with steps is waited on
RECURSIVE EnterJob(_, _)
EnterJob(jbs, j) ==
    IF j > Len(jbs)
    THEN [jobs |-> jbs, ji |-> j, si |-> 0, processedSteps |-> <<>>, pc |-> "done"]
    ELSE IF Len(jbs[j].steps) = 0
    THEN EnterJob([jbs EXCEPT ![j].steps = <<>>], j + 1)
    ELSE [jobs |-> jbs, ji |-> j, si |-> 1, processedSteps |-> <<>>,
          pc |-> "processing"]

\* variant: the job's step list is not replaced by the processed steps
Advance_NoReplace(jbs, j, i, processed) ==
    IF i < Len(jbs[j].steps)
    THEN [jobs |-> jbs, ji |-> j, si |-> i + 1, processedSteps |-> processed,
          pc |-> "processing"]
    ELSE EnterJob(jbs, j + 1)

\* variant: the job's step list is written after every step, not once at
\* the end of the job
Advance_ReplaceEachStep(jbs, j, i, processed) ==
    IF i < Len(jbs[j].steps)
    THEN [jobs |-> [jbs EXCEPT ![j].steps =
                       processed \o SubSeq(jbs[j].steps, i + 1, Len(jbs[j].steps))],
          ji |-> j, si |-> i + 1, processedSteps |-> processed,
          pc |-> "processing"]
    ELSE EnterJob([jbs EXCEPT ![j].steps = processed], j + 1)

\* variant: the processed steps are put in front of the list, not at its end
Advance_Unshift(jbs, j, i, processed) ==
    IF i < Len(jbs[j].steps)
    THEN [jobs |-> jbs, ji |-> j, si |-> i + 1, processedSteps |-> processed,
          pc |-> "processing"]
    ELSE EnterJob([jbs EXCEPT ![j].steps =
                      [k \in 1..Len(processed) |-> processed[Len(processed) + 1 - k]]],
                  j + 1)

\* processedSteps.push(...) for step i of job j, then the next iteration,
\* or job._setStepInstances(processedSteps) and the next job
Advance(jbs, j, i, processed) ==
    IF i < Len(jbs[j].steps)
    THEN [jobs |-> jbs, ji |-> j, si |-> i + 1, processedSteps |-> processed,
          pc |-> "processing"]
    ELSE EnterJob([jbs EXCEPT ![j].steps = processed], j + 1)

SetLoop(r) ==
    /\ jobs' = r.jobs
    /\ ji' = r.ji
    /\ si' = r.si
    /\ processedSteps' = r.processedSteps
    /\ pc' = r.pc

\* the step the loop is at
CurrentId == jobs[ji].steps[si]
Current == heap[CurrentId]

\* addSetupActionsToWorkflow(workflow) called on its own
CallAddSetupActionsToWorkflow ==
    /\ pc = "built"
    /\ setupRuns < MaxSetupRuns
    /\ heap' = addSetupActionsToWorkflow(heap, jobs).heap
    /\ jobs' = addSetupActionsToWorkflow(heap, jobs).jobs
    /\ setupRuns' = setupRuns + 1
    /\ afterSetup' = IF setupRuns = 0 THEN Some(jobs') ELSE afterSetup
    /\ UNCHANGED <<pc, ji, si, processedSteps, tp, log, initial, pre,
                   extractionFailed, stepVars, argVars, drvVars, unitVars>>

\* processWorkflowSteps(workflow) up to its first await
ProcessWorkflowSteps ==
    /\ pc = "built"
    /\ heap' = addSetupActionsToWorkflow(heap, jobs).heap
    /\ setupRuns' = setupRuns + 1
    /\ afterSetup' = IF setupRuns = 0
                     THEN Some(addSetupActionsToWorkflow(heap, jobs).jobs)
                     ELSE afterSetup
    /\ pre' = Some([heapLen |-> Len(heap'),
                    jobs |-> addSetupActionsToWorkflow(heap, jobs).jobs])
    /\ SetLoop(EnterJob(addSetupActionsToWorkflow(heap, jobs).jobs, 1))
    /\ UNCHANGED <<tp, log, initial, extractionFailed, stepVars, argVars, drvVars, unitVars>>

\* processStep(step) for a step without a function: the step itself
ProcessPlainStep ==
    /\ pc = "processing"
    /\ tp.pc = "idle"
    /\ GetTypeScriptFunction(Current) = None
    /\ log' = Append(log, CurrentId)
    /\ SetLoop(Advance(jobs, ji, si, Append(processedSteps, CurrentId)))
    /\ UNCHANGED <<heap, tp, setupRuns, afterSetup, initial, pre,
                   extractionFailed, stepVars, argVars, drvVars, unitVars>>

\* variant: a failed extraction is let through
ExtractionThrows_Never(extracted) == FALSE

\* the guard of processTypeScriptStep: if (!extracted) throw
ExtractionThrows(extracted) == extracted = None

\* processStep(step) for a function step, up to the await of the transpiler
BeginFunctionStep ==
    /\ pc = "processing"
    /\ tp.pc = "idle"
    /\ GetTypeScriptFunction(Current) # None
    /\ log' = Append(log, CurrentId)
    /\ \E outcome \in ExtractionOutcomes :
         LET extracted ==
                 extractTypeScriptFunction(
                     Get(GetTypeScriptFunction(Current)).fn, outcome)
         IN  /\ extractionFailed' = (extractionFailed \/ extracted = None)
             /\ IF ExtractionThrows(extracted)
                THEN /\ pc' = "rejected"
                     /\ tp' = tp
                ELSE /\ pc' = pc
                     /\ tp' = [TpIdle EXCEPT
                                 !.pc = "import",
                                 !.source = IF extracted = None THEN EmptyText
                                            ELSE Get(extracted).source]
    /\ UNCHANGED <<heap, jobs, ji, si, processedSteps, setupRuns, afterSetup,
                   initial, pre, stepVars, argVars, drvVars, unitVars>>

\* variant: the catch block tries the bundler again
BundlerFailed_Retry(t) == [t EXCEPT !.pc = "import", !.bundlerFailed = TRUE]

\* the catch block of transpileWithBundling: warn, then the fallback path
BundlerFailed(t) == [t EXCEPT !.pc = "fallback", !.bundlerFailed = TRUE]

\* await import("esbuild")
ImportEsbuild ==
    /\ pc = "processing"
    /\ tp.pc = "import"
    /\ \E available \in BOOLEAN :
         tp' = IF available
               THEN [tp EXCEPT !.pc = "build", !.imports = @ + 1]
               ELSE BundlerFailed([tp EXCEPT !.imports = @ + 1])
    /\ UNCHANGED <<heap, jobs, pc, ji, si, processedSteps, log, setupRuns,
                   afterSetup, initial, pre, extractionFailed, stepVars, argVars, drvVars, unitVars>>

CurrentArgs == Get(GetTypeScriptFunction(Current)).args

\* await esbuild.build(...): it returns a bundle, returns errors (which
\* the caller throws) or throws
EsbuildBuild ==
    /\ pc = "processing"
    /\ tp.pc = "build"
    /\ \E result \in {"bundle", "errors", "throws"} :
         tp' = IF result = "bundle"
               THEN [tp EXCEPT !.pc = "return", !.builds = @ + 1,
                        !.code = Some(BundledCode(tp.source,
                                        processArguments(CurrentArgs),
                                        generateEnvVarCode(CurrentArgs)))]
               ELSE BundlerFailed([tp EXCEPT !.builds = @ + 1])
    /\ UNCHANGED <<heap, jobs, pc, ji, si, processedSteps, log, setupRuns,
                   afterSetup, initial, pre, extractionFailed, stepVars, argVars, drvVars, unitVars>>

\* return transpileWithoutBundling(...) in the catch block
TranspileWithoutBundling ==
    /\ pc = "processing"
    /\ tp.pc = "fallback"
    /\ tp' = [tp EXCEPT !.pc = "return", !.fallbacks = @ + 1,
                 !.code = Some(transpileWithoutBundling(tp.source,
                                 processArguments(CurrentArgs),
                                 generateEnvVarCode(CurrentArgs)))]
    /\ UNCHANGED <<heap, jobs, pc, ji, si, processedSteps, log, setupRuns,
                   afterSetup, initial, pre, extractionFailed, stepVars, argVars, drvVars, unitVars>>

\* the rest of processTypeScriptStep: the new Step, pushed by the loop
FinishFunctionStep ==
    /\ pc = "processing"
    /\ tp.pc = "return"
    /\ heap' = Append(heap, NewCommandStep(ToJSON(Current), CurrentArgs,
                                           Get(tp.code)))
    /\ tp' = TpIdle
    /\ SetLoop(Advance(jobs, ji, si, Append(processedSteps, Len(heap) + 1)))
    /\ UNCHANGED <<log, setupRuns, afterSetup, initial, pre, extractionFailed,
                   stepVars, argVars, drvVars, unitVars>>

Next ==
    \/ CallAddSetupActionsToWorkflow
    \/ ProcessWorkflowSteps
    \/ ProcessPlainStep
    \/ BeginFunctionStep
    \/ ImportEsbuild
    \/ EsbuildBuild
    \/ TranspileWithoutBundling
    \/ FinishFunctionStep

Spec == Init /\ [][Next]_vars

----------------------------------------------------------------------------
(* DriverSpec: node running the code of a command step.  The code is the   *)
(* text of wrapWithErrorHandler around generateFunctionCallCodeForCJS      *)
(* (bundling path) or around generateFunctionCallCode (non-bundling path). *)

DriverPaths == {"bundled", "fallback"}

\* what the name the driver calls is bound to once the module code has run
ExportedKinds == {"function", "object", "undefined"}

\* what the function does when called
Behaviours == {"returns", "resolves", "throws", "rejects"}

\* what the function returns or its promise resolves to: undefined, null,
\* the empty string, the number 0 or some other value
DriverResults == {"undefined", "null", "empty string", "zero", "value"}

\* the line console.log(value) writes
ConsoleLog(value) ==
    IF value = "empty string" THEN ""
    ELSE IF value = "zero" THEN "0"
    ELSE value

DriverInit ==
    /\ StepIdle
    /\ ArgsIdle
    /\ SynthIdle
    /\ UnitsIdle
    /\ \E path \in DriverPaths, exported \in ExportedKinds,
          moduleThrows \in BOOLEAN, behaviour \in Behaviours,
          result \in DriverResults, thrown \in {"Error", "other"} :
         drv = [DrvIdle EXCEPT !.pc = "start", !.path = path,
                               !.exported = exported,
                               !.moduleThrows = moduleThrows,
                               !.behaviour = behaviour, !.result = result,
                               !.thrown = thrown]

\* throw inside a try block: control goes to its catch block
Throw(d, catch, error) == [d EXCEPT !.pc = catch, !.error = Some(error)]

\* the lines before the try block: Error.prepareStackTrace is replaced
Prelude(d) == [d EXCEPT !.pc = "module"]

\* the first statements of the outer try block: the module object (bundling
\* path), then the bundle or the transpiled function source
ModuleCode(d) ==
    IF d.moduleThrows
    THEN Throw(d, "outerCatch", d.thrown)
    ELSE [d EXCEPT !.pc = "iife"]

\* the async function up to the call: on the bundling path
\* const fn = module.exports and the typeof check
ExportCheck(d) ==
    IF d.path = "bundled" /\ d.exported # "function"
    THEN Throw(d, "innerCatch", "Error")
    ELSE [d EXCEPT !.pc = "call"]

\* fn(...args): a TypeError when the callee is no function, a synchronous
\* throw, or a value or promise to await
FunctionCall(d) ==
    IF d.exported # "function" THEN Throw(d, "innerCatch", "Error")
    ELSE IF d.behaviour = "throws"
    THEN Throw([d EXCEPT !.invoked = TRUE], "innerCatch", d.thrown)
    ELSE [d EXCEPT !.invoked = TRUE, !.pc = "await"]

\* const result = await ...: the rejection is thrown inside the inner try
AwaitResult(d) ==
    IF d.behaviour = "rejects" THEN Throw(d, "innerCatch", d.thrown)
    ELSE [d EXCEPT !.pc = "settled"]

\* process.exit(code)
ProcessExit(d, code) == [d EXCEPT !.pc = "exited", !.exitCode = Some(code)]

\* variant: the result is printed only when it is truthy
ReportResult_Truthy(d) ==
    ProcessExit(
        IF d.result \notin {"undefined", "null", "empty string", "zero"}
        THEN [d EXCEPT !.stdout = Append(@, ConsoleLog(d.result))]
        ELSE d,
        0)

\* if (result !== undefined) console.log(result); process.exit(0)
ReportResult(d) ==
    ProcessExit(
        IF d.result # "undefined"
        THEN [d EXCEPT !.stdout = Append(@, ConsoleLog(d.result))]
        ELSE d,
        0)

\* variant: the inner catch block ends the process as a success
InnerCatch_ExitZero(d) ==
    ProcessExit([d EXCEPT !.stderr = Append(@, "Error executing function:")], 0)

\* the catch block of the async function
InnerCatch(d) ==
    ProcessExit(
        [d EXCEPT !.stderr =
            IF Get(d.error) = "Error"
            THEN Append(Append(@, "Error executing function:"), "Stack trace:")
            ELSE Append(@, "Error executing function:")],
        1)

\* the catch block of wrapWithErrorHandler: a thrown value that is no
\* Error (a string, say) has no stack
OuterCatch(d) ==
    ProcessExit(
        [d EXCEPT !.stderr =
            IF Get(d.error) = "Error"
            THEN Append(Append(@, "Error in TypeScript function:"), "Stack trace:")
            ELSE Append(@, "Error in TypeScript function:")],
        1)

\* the driver is at the given place and nothing but the driver moves
DriverAt(at) ==
    /\ drv.pc = at
    /\ UNCHANGED <<stepVars, argVars, synthVars, unitVars>>

RunPrelude == DriverAt("start") /\ drv' = Prelude(drv)

RunModuleCode == DriverAt("module") /\ drv' = ModuleCode(drv)

RunExportCheck == DriverAt("iife") /\ drv' = ExportCheck(drv)

RunFunctionCall == DriverAt("call") /\ drv' = FunctionCall(drv)

RunAwaitResult == DriverAt("await") /\ drv' = AwaitResult(drv)

RunReportResult == DriverAt("settled") /\ drv' = ReportResult(drv)

RunInnerCatch == DriverAt("innerCatch") /\ drv' = InnerCatch(drv)

RunOuterCatch == DriverAt("outerCatch") /\ drv' = OuterCatch(drv)

DriverNext ==
    \/ RunPrelude
    \/ RunModuleCode
    \/ RunExportCheck
    \/ RunFunctionCall
    \/ RunAwaitResult
    \/ RunReportResult
    \/ RunInnerCatch
    \/ RunOuterCatch

DriverSpec == DriverInit /\ [][DriverNext]_vars

----------------------------------------------------------------------------
(* ShellSpec: wrapJavaScriptForShell applied to a script text, and the     *)
(* shell running the command it built.  The script is either the output of *)
(* wrapWithErrorHandler, as in processTypeScriptStep, or any text.         *)

MaxScriptLines == 3

\* lines a script may hold: plain code, the delimiter itself, quotes and
\* a parameter reference
ScriptLines ==
    { "console.log(1);", "TS_ACTIONS_EOF", "const s = 'it' + \"s\" + $HOME;" }

ScriptTexts == SeqsUpTo(ScriptLines, MaxScriptLines) \ {<<>>}

ShellInit ==
    /\ StepIdle
    /\ ArgsIdle
    /\ SynthIdle
    /\ drv = DrvIdle
    /\ ShRestIdle
    /\ \E text \in ScriptTexts, from \in {"synthesized", "direct"} :
         /\ origin = from
         /\ script = IF from = "synthesized"
                     THEN wrapWithErrorHandler(text)
                     ELSE text
    /\ runCommand = None
    /\ stdin = None
    /\ leftover = <<>>

\* the word after << in the first line of the command
HeredocWord(first) == SubSeq(first, Len("node << ") + 1, Len(first))

\* a quoted word: no expansion is done on the heredoc's lines
HeredocQuoted(first) == CharAt(HeredocWord(first), 1) = "'"

\* the delimiter: the word with its quotes removed
HeredocDelimiter(first) ==
    IF HeredocQuoted(first)
    THEN SubSeq(HeredocWord(first), 2, Len(HeredocWord(first)) - 1)
    ELSE HeredocWord(first)

\* the heredoc ends at the first line that is the delimiter and nothing else
HeredocEnd(lines) ==
    LET ends == { i \in 2..Len(lines) : lines[i] = HeredocDelimiter(lines[1]) }
    IN  IF ends = {} THEN Len(lines) + 1
        ELSE CHOOSE i \in ends : \A k \in ends : i <= k

\* parameter expansion of one line of an unquoted heredoc
ShellExpand(line) == IF Includes(line, "$") THEN "<expanded>" ELSE line

\* the lines node reads from standard input
HeredocBody(lines) ==
    LET body == SubSeq(lines, 2, HeredocEnd(lines) - 1)
    IN  IF HeredocQuoted(lines[1]) THEN body
        ELSE [k \in 1..Len(body) |-> ShellExpand(body[k])]

\* the lines after the heredoc, which the shell reads as commands
HeredocRest(lines) == SubSeq(lines, HeredocEnd(lines) + 1, Len(lines))

\* const wrappedCode = wrapJavaScriptForShell(transpiled.code)
CallWrapJavaScriptForShell ==
    /\ runCommand = None
    /\ runCommand' = Some(wrapJavaScriptForShell(script))
    /\ UNCHANGED <<script, origin, stdin, leftover,
                   stepVars, argVars, synthVars, drvVars, shRest>>

\* the runner's shell executes the step's run command
RunShell ==
    /\ runCommand # None
    /\ stdin = None
    /\ stdin' = Some(HeredocBody(Get(runCommand)))
    /\ leftover' = HeredocRest(Get(runCommand))
    /\ UNCHANGED <<script, origin, runCommand,
                   stepVars, argVars, synthVars, drvVars, shRest>>

ShellNext ==
    \/ CallWrapJavaScriptForShell
    \/ RunShell

ShellSpec == ShellInit /\ [][ShellNext]_vars

----------------------------------------------------------------------------
(* LocateSpec: parseStackTrace applied to a stack trace.  A frame is kept  *)
(* with the text node printed for it and, apart from that, the file and    *)
(* line it stands for; parseStackTrace reads the text only.                *)

MaxFrames == 3

\* the files existsSync finds
Disk ==
    { "/app/wf.ts", "/redist/wf.ts", "/lib/dist/index.js",
      "/app/node_modules/x/i.js", "/lib/src/core/step.ts" }

\* the library's own modules
LibraryInternals ==
    { "/lib/src/core/step.ts", "/lib/src/synth/workflow-processor.ts",
      "/lib/src/synth/function-extractor.ts" }

Frame(text, file, line) == [text |-> text, file |-> file, line |-> line]

Frames ==
    { Frame("Error: TypeScript function extraction", None, 0),
      Frame("    at main (/app/wf.ts:12:3)", Some("/app/wf.ts"), 12),
      Frame("    at file:///app/wf.ts:20:5", Some("/app/wf.ts"), 20),
      Frame("    at main (/redist/wf.ts:7:1)", Some("/redist/wf.ts"), 7),
      Frame("    at run (/lib/dist/index.js:5:1)", Some("/lib/dist/index.js"), 5),
      Frame("    at run (/app/node_modules/x/i.js:9:2)",
            Some("/app/node_modules/x/i.js"), 9),
      Frame("    at Step.runTypeScript (/lib/src/core/step.ts:350:9)",
            Some("/lib/src/core/step.ts"), 350),
      Frame("    at main (/gone/wf.ts:3:1)", Some("/gone/wf.ts"), 3) }

LocateInit ==
    /\ StepIdle
    /\ ArgsIdle
    /\ SynthIdle
    /\ drv = DrvIdle
    /\ LocRestIdle
    /\ trace \in SeqsUpTo(Frames, MaxFrames)
    /\ located = <<>>

Digits == {"0", "1", "2", "3", "4", "5", "6", "7", "8", "9"}

\* \d+ matches exactly the characters a..b of the line
IsNumberAt(line, a, b) ==
    /\ a <= b
    /\ \A k \in a..b : CharAt(line, k) \in Digits

ColonsOf(line) == { k \in 1..Len(line) : CharAt(line, k) = ":" }

\* the first colon after position k, or 0
NextColon(line, k) ==
    LET later == { c \in ColonsOf(line) : c > k }
    IN  IF later = {} THEN 0 ELSE CHOOSE c \in later : \A d \in later : c <= d

\* the last colon before position k, or 0
PrevColon(line, k) ==
    LET earlier == { c \in ColonsOf(line) : c < k }
    IN  IF earlier = {} THEN 0 ELSE CHOOSE c \in earlier : \A d \in earlier : c >= d

\* the end of the run of digits that starts at position k (k - 1 if none)
NumberEnd(line, k) ==
    LET ends == { e \in k..Len(line) : IsNumberAt(line, k, e) }
    IN  IF ends = {} THEN k - 1 ELSE CHOOSE e \in ends : \A f \in ends : e >= f

DigitValue(c) == CHOOSE v \in 0..9 : ToString(v) = c

RECURSIVE ParseInt(_)
\* Number.parseInt(digits, 10)
ParseInt(digits) ==
    IF digits = "" THEN 0
    ELSE 10 * ParseInt(SubSeq(digits, 1, Len(digits) - 1))
         + DigitValue(CharAt(digits, Len(digits)))

\* /\(([^:]+):(\d+):\d+\)/ with its opening parenthesis at p
Pattern1At(line, p) ==
    LET c1 == NextColon(line, p)
        c2 == NextColon(line, c1)
        e  == NumberEnd(line, c2 + 1)
    IN  /\ CharAt(line, p) = "("
        /\ c1 > p + 1
        /\ c2 > c1
        /\ IsNumberAt(line, c1 + 1, c2 - 1)
        /\ e > c2
        /\ e < Len(line)
        /\ CharAt(line, e + 1) = ")"

\* /([^:]+):(\d+):\d+/ with the colon after the first group at c1
Pattern2At(line, c1) ==
    LET c2 == NextColon(line, c1)
    IN  /\ c1 - PrevColon(line, c1) > 1
        /\ c2 > c1
        /\ IsNumberAt(line, c1 + 1, c2 - 1)
        /\ c2 < Len(line)
        /\ CharAt(line, c2 + 1) \in Digits

Capture(line, from, c1) ==
    [path |-> SubSeq(line, from, c1 - 1),
     number |-> SubSeq(line, c1 + 1, NextColon(line, c1) - 1)]

\* line.match(STACK_TRACE_PATTERN1) || line.match(STACK_TRACE_PATTERN2):
\* the leftmost match of the first pattern, else of the second
MatchFrame(line) ==
    LET opens == { p \in 1..Len(line) : Pattern1At(line, p) }
        colons == { c \in ColonsOf(line) : Pattern2At(line, c) }
    IN  IF opens # {}
        THEN LET p == CHOOSE q \in opens : \A r \in opens : q <= r
             IN  Some(Capture(line, p + 1, NextColon(line, p)))
        ELSE IF colons # {}
        THEN LET c == CHOOSE d \in colons : \A f \in colons : d <= f
             IN  Some(Capture(line, PrevColon(line, c) + 1, c))
        ELSE None

RECURSIVE DropSlashes(_)
DropSlashes(path) ==
    IF Len(path) > 0 /\ CharAt(path, 1) = "/"
    THEN DropSlashes(SubSeq(path, 2, Len(path)))
    ELSE path

\* path.resolve: an absolute path normalised, a relative one put under the
\* working directory
Resolve(path) ==
    IF Len(path) > 0 /\ CharAt(path, 1) = "/"
    THEN "/" \o DropSlashes(path)
    ELSE "/cwd/" \o path

ExistsSync(path) == path \in Disk

\* the condition under which parseStackTrace returns a matched frame
Accepted(filePath) ==
    /\ ~Includes(filePath, "node_modules")
    /\ ~Includes(filePath, "dist")
    /\ ~Includes(filePath, "src/core/step.ts")
    /\ ~Includes(filePath, "src/synth/workflow-processor.ts")
    /\ ~Includes(filePath, "src/synth/function-extractor.ts")
    /\ ExistsSync(filePath)

RECURSIVE ParseFrom(_, _)
\* the for loop of parseStackTrace from line i on; None is null
ParseFrom(lines, i) ==
    IF i > Len(lines) THEN None
    ELSE LET match == MatchFrame(lines[i])
         IN  IF IsSome(match) /\ Accepted(Resolve(Get(match).path))
             THEN Some([filePath |-> Resolve(Get(match).path),
                        lineNumber |-> ParseInt(Get(match).number)])
             ELSE ParseFrom(lines, i + 1)

\* parseStackTrace(stack), the stack split at its line ends
parseStackTrace(lines) == ParseFrom(lines, 1)

\* const sourceLocation = parseStackTrace(stack)
CallParseStackTrace ==
    /\ located = <<>>
    /\ located' = <<parseStackTrace([k \in 1..Len(trace) |-> trace[k].text])>>
    /\ UNCHANGED <<trace, stepVars, argVars, synthVars, drvVars, locRest>>

LocateNext == CallParseStackTrace

LocateSpec == LocateInit /\ [][LocateNext]_vars

----------------------------------------------------------------------------
(* FindSpec: findFunctionInAST applied to a parsed source file.  The file  *)
(* is a list of statements; its syntax tree is kept as a table of nodes in *)
(* source order, each with its parent (0 is the source file itself).       *)

MaxStatements == 3

\* the line parseStackTrace returned
ApproximateLine == 20

\* Math.abs(callLine - approximateLine) < 10
PreciseWindow == 10
\* Math.abs(nodeStart - approximateLine) < 100
FallbackWindow == 100

\* lines a statement may start at: at the target, 9 and 10 lines from it,
\* 99 and 100 lines from it
StatementLines == {10, 11, 20, 30, 119, 120}

\* step.runTypeScript(() => ...), step.runTypeScript(myFn),
\* function myFn() {}, const myFn = () => ..., items.map(x => ...),
\* a.runTypeScript(function () { b.runTypeScript(() => ...) })
StatementKinds ==
    {"callArrow", "callIdentifier", "declaration", "constArrow", "mapArrow",
     "nestedCall"}

Node(kind, line, parent, name) ==
    [kind |-> kind, line |-> line, parent |-> parent, name |-> name]

\* the nodes of one statement, the table holding base nodes before it; a
\* call node carries the name of the property its callee accesses
NodesOf(kind, line, base) ==
    CASE kind = "callArrow" ->
           << Node("call", line, 0, "runTypeScript"),
              Node("arrow", line, base + 1, "") >>
      [] kind = "callIdentifier" ->
           << Node("call", line, 0, "runTypeScript"),
              Node("identifier", line, base + 1, "myFn") >>
      [] kind = "declaration" ->
           << Node("functionDeclaration", line, 0, "myFn") >>
      [] kind = "constArrow" ->
           << Node("variableDeclaration", line, 0, "myFn"),
              Node("arrow", line, base + 1, "") >>
      [] kind = "mapArrow" ->
           << Node("call", line, 0, "map"),
              Node("arrow", line, base + 1, "") >>
      [] kind = "nestedCall" ->
           << Node("call", line, 0, "runTypeScript"),
              Node("functionExpression", line, base + 1, ""),
              Node("call", line, base + 2, "runTypeScript"),
              Node("arrow", line, base + 3, "") >>

RECURSIVE BuildAst(_, _, _)
\* ts.createSourceFile: the table of the statements from the i-th on
BuildAst(statements, i, table) ==
    IF i > Len(statements) THEN table
    ELSE BuildAst(statements, i + 1,
                  table \o NodesOf(statements[i].kind, statements[i].line,
                                   Len(table)))

\* source files: statements at lines that grow
SourceFiles ==
    { f \in SeqsUpTo([kind : StatementKinds, line : StatementLines],
                     MaxStatements) :
        /\ f # <<>>
        /\ \A i \in 1..(Len(f) - 1) : f[i].line < f[i + 1].line }

FindInit ==
    /\ StepIdle
    /\ ArgsIdle
    /\ SynthIdle
    /\ drv = DrvIdle
    /\ FindRestIdle
    /\ \E f \in SourceFiles : ast = BuildAst(f, 1, <<>>)
    /\ fnName \in {"", "myFn"}
    /\ targetLine = ApproximateLine
    /\ foundNode = <<>>

Abs(x) == IF x < 0 THEN 0 - x ELSE x

RECURSIVE ChildrenFrom(_, _, _)
\* ts.forEachChild: the children of node n, in source order
ChildrenFrom(tree, n, k) ==
    IF k > Len(tree) THEN <<>>
    ELSE IF tree[k].parent = n
    THEN <<k>> \o ChildrenFrom(tree, n, k + 1)
    ELSE ChildrenFrom(tree, n, k + 1)

ChildrenOf(tree, n) == ChildrenFrom(tree, n, 1)

\* ts.isFunctionDeclaration(x) || ts.isArrowFunction(x) ||
\* ts.isFunctionExpression(x)
IsFunctionNode(node) ==
    node.kind \in {"functionDeclaration", "arrow", "functionExpression"}

\* Math.abs(callLine - approximateLine) < 10
IsNearCall(callLine, approximateLine) ==
    Abs(callLine - approximateLine) < PreciseWindow

\* ts.isCallExpression(node) && ts.isPropertyAccessExpression(expr) &&
\* expr.name.text === "runTypeScript" and the call is near the target line
IsCallNearTarget(tree, n, approximateLine) ==
    /\ n > 0
    /\ tree[n].kind = "call"
    /\ tree[n].name = "runTypeScript"
    /\ IsNearCall(tree[n].line, approximateLine)

RECURSIVE VisitCall(_, _, _, _)
RECURSIVE VisitCallChildren(_, _, _, _)
\* visit of findRunTypeScriptCall at node n; the value of foundCall after it
\* (0 is null).  A call that is taken is not descended into; the walk goes
\* on after it, as its callback returns nothing.
VisitCall(tree, approximateLine, n, foundCall) ==
    IF IsCallNearTarget(tree, n, approximateLine) THEN n
    ELSE VisitCallChildren(tree, approximateLine, ChildrenOf(tree, n), foundCall)

VisitCallChildren(tree, approximateLine, children, foundCall) ==
    IF children = <<>> THEN foundCall
    ELSE VisitCallChildren(tree, approximateLine, Tail(children),
             VisitCall(tree, approximateLine, Head(children), foundCall))

\* findRunTypeScriptCall(sourceFile, approximateLine): the first argument of
\* foundCall when it is a function, else null
findRunTypeScriptCall(tree, approximateLine) ==
    LET foundCall == VisitCall(tree, approximateLine, 0, 0)
        arguments == IF foundCall = 0 THEN <<>> ELSE ChildrenOf(tree, foundCall)
    IN  IF foundCall # 0 /\ Len(arguments) > 0 /\ IsFunctionNode(tree[arguments[1]])
        THEN arguments[1]
        ELSE 0

\* isNearTargetLine of the fallback pass
IsNearTargetLine(nodeStart, approximateLine) ==
    Abs(nodeStart - approximateLine) < FallbackWindow

\* the test visit makes on one node before it goes to the children
IsFallbackMatch(tree, functionName, approximateLine, n) ==
    /\ n > 0
    /\ IsNearTargetLine(tree[n].line, approximateLine)
    /\ \/ /\ tree[n].kind = "functionDeclaration"
          /\ (functionName = "" \/ tree[n].name = functionName)
       \/ /\ tree[n].kind \in {"arrow", "functionExpression"}
          /\ \/ /\ tree[n].parent > 0
                /\ tree[tree[n].parent].kind = "variableDeclaration"
                /\ tree[tree[n].parent].name = functionName
             \/ functionName = ""

RECURSIVE Visit(_, _, _, _)
RECURSIVE VisitChildren(_, _, _, _)
\* visit of findFunctionInAST at node n: the node itself or the first
\* descendant, in source order, that passes the test (0 is null)
Visit(tree, functionName, approximateLine, n) ==
    IF IsFallbackMatch(tree, functionName, approximateLine, n) THEN n
    ELSE VisitChildren(tree, functionName, approximateLine, ChildrenOf(tree, n))

\* ts.forEachChild(node, visit) || null
VisitChildren(tree, functionName, approximateLine, children) ==
    IF children = <<>> THEN 0
    ELSE LET first == Visit(tree, functionName, approximateLine, Head(children))
         IN  IF first # 0 THEN first
             ELSE VisitChildren(tree, functionName, approximateLine, Tail(children))

\* findFunctionInAST(sourceFile, fn, approximateLine), with the pass that
\* produced the result
findFunctionInAST(tree, name, approximateLine) ==
    LET runTypeScriptCall == findRunTypeScriptCall(tree, approximateLine)
    IN  IF runTypeScriptCall # 0
        THEN [node |-> runTypeScriptCall, pass |-> "precise"]
        ELSE [node |-> Visit(tree, name, approximateLine, 0), pass |-> "fallback"]

\* const functionNode = findFunctionInAST(sourceFile, fn, lineNumber)
CallFindFunctionInAST ==
    /\ foundNode = <<>>
    /\ foundNode' = <<findFunctionInAST(ast, fnName, targetLine)>>
    /\ UNCHANGED <<ast, fnName, targetLine,
                   stepVars, argVars, synthVars, drvVars, findRest>>

FindNext == CallFindFunctionInAST

FindSpec == FindInit /\ [][FindNext]_vars

----------------------------------------------------------------------------
(* CallSpec: the arguments of one runTypeScript call, from the builder to  *)
(* the call expression of the generated code.                              *)

\* values passed after the function; one string holds a comma
CallValues == { Str("a, b"), Num(50), Bool(FALSE), Str("${{ github.sha }}") }

\* the options objects a caller can pass
OptionsObjects == { Obj({}, ""), Obj({"nodeVersion"}, "20") }

\* what follows the function: the arguments, after an options object or not
GivenLists ==
    LET lists == SeqsUpTo(CallValues, MaxArgs)
    IN  lists \cup { <<o>> \o l : o \in OptionsObjects, l \in lists }

CallInit ==
    /\ StepIdle
    /\ ArgsIdle
    /\ SynthIdle
    /\ drv = DrvIdle
    /\ CallRestIdle
    /\ given \in GivenLists
    /\ callCode = <<>>

\* step.runTypeScript(fn, ...given)
RunTypeScriptWithGiven ==
    /\ step.typescriptFunction = None
    /\ \E fn \in Functions, site \in CallSites :
         step' = StepRunTypeScript(step, fn, given, site)
    /\ UNCHANGED <<calls, lastCall, argVars, synthVars, drvVars, unitVars>>

\* processTypeScriptStep: tsData.args handed to transpileTypeScriptFunction,
\* which calls processArguments
TranspileCallsProcessArguments ==
    /\ step.typescriptFunction # None
    /\ processedArgs = None
    /\ args' = Get(GetTypeScriptFunction(step)).args
    /\ processedArgs' = Some(processArguments(args'))
    /\ UNCHANGED <<envVarCode, stepVars, synthVars, drvVars, unitVars>>

\* transpileWithBundling, by esbuild or by its fallback
TranspileReturnsCode ==
    /\ processedArgs # None
    /\ callCode = <<>>
    /\ envVarCode' = Some(generateEnvVarCode(args))
    /\ \E bundled \in BOOLEAN :
         callCode' =
            <<IF bundled
              THEN BundledCode(SourceOf(Get(step.typescriptFunction)),
                               Get(processedArgs), Get(envVarCode'))
              ELSE transpileWithoutBundling(
                       SourceOf(Get(step.typescriptFunction)),
                       Get(processedArgs), Get(envVarCode'))>>
    /\ UNCHANGED <<args, processedArgs, given, stepVars, synthVars, drvVars,
                   callRest>>

CallNext ==
    \/ RunTypeScriptWithGiven
    \/ TranspileCallsProcessArguments
    \/ TranspileReturnsCode

CallSpec == CallInit /\ [][CallNext]_vars

----------------------------------------------------------------------------
(* CopySpec: processTypeScriptStep applied to one function step whose      *)
(* fields were set through the builder, to any value the setters take.     *)

\* a setter not called, or called with one of the values
Optional(S) == {None} \cup { Some(v) : v \in S }

TextsSet(value) == Optional({"", value})

\* new Step() with runTypeScript(fn, ...params) and the setters that were
\* called
FunctionStepWith(params, id, name, env, condition, continue, minutes, directory) ==
    LET s0 == StepRunTypeScript(NewStep, "processData", params, "workflow.ts:12")
        s1 == IF IsSome(id) THEN StepId(s0, Get(id)) ELSE s0
        s2 == IF IsSome(name) THEN StepName(s1, Get(name)) ELSE s1
        s3 == IF IsSome(env) THEN StepEnv(s2, Get(env)) ELSE s2
        s4 == IF IsSome(condition) THEN StepIf(s3, Get(condition)) ELSE s3
        s5 == IF IsSome(continue) THEN StepContinueOnError(s4, Get(continue)) ELSE s4
        s6 == IF IsSome(minutes) THEN StepTimeoutMinutes(s5, Get(minutes)) ELSE s5
    IN  IF IsSome(directory) THEN StepWorkingDirectory(s6, Get(directory)) ELSE s6

CopyInit ==
    /\ calls = 0
    /\ lastCall = "new"
    /\ ArgsIdle
    /\ SynthIdle
    /\ drv = DrvIdle
    /\ CopyRestIdle
    /\ \E params \in {<<>>, <<Str("${{ github.sha }}")>>},
          id \in TextsSet("s1"), name \in TextsSet("Build"),
          env \in Optional(EnvMaps), condition \in TextsSet("always()"),
          continue \in Optional(BOOLEAN), minutes \in Optional({0, 5}),
          directory \in TextsSet("app") :
         step = FunctionStepWith(params, id, name, env, condition, continue,
                                 minutes, directory)
    /\ replacement = <<>>

\* processedSteps.push(await processTypeScriptStep(step, tsData)), the
\* extraction and the bundler having succeeded
CallProcessTypeScriptStep ==
    /\ replacement = <<>>
    /\ LET tsData == Get(GetTypeScriptFunction(step))
           code == BundledCode(SourceOf(tsData.fn), processArguments(tsData.args),
                               generateEnvVarCode(tsData.args))
       IN  replacement' = <<NewCommandStep(ToJSON(step), tsData.args, code)>>
    /\ UNCHANGED <<stepVars, argVars, synthVars, drvVars, copyRest>>

CopyNext == CallProcessTypeScriptStep

CopySpec == CopyInit /\ [][CopyNext]_vars

----------------------------------------------------------------------------
(* NeedsSpec: Job objects, workflow.addJob and needs().  Of a Job the model *)
(* keeps the public id field, who wrote it last, and the id of the last     *)
(* addJob call the job was passed to.                                       *)

MaxJobs == 2
MaxJobCalls == 3

\* job ids; JobId is string, the empty string included
JobIdValues == {"build", "test", ""}

\* new Job("ubuntu-latest")
NewJob == [id |-> None, writer |-> "nobody", addedAs |-> None]

NeedsInit ==
    /\ StepIdle
    /\ ArgsIdle
    /\ SynthIdle
    /\ drv = DrvIdle
    /\ NeedsRestIdle
    /\ jobObjects = [j \in 1..MaxJobs |-> NewJob]
    /\ configJobs = {}
    /\ needsResult = <<>>
    /\ jobCalls = 0

JobCalled ==
    /\ jobCalls < MaxJobCalls
    /\ jobCalls' = jobCalls + 1
    /\ UNCHANGED <<stepVars, argVars, synthVars, drvVars, needsRest>>

\* jobOrFn.id = jobId; this.config.jobs[jobId] = jobOrFn.toJSON()
addJob(objects, keys, jobId, j) ==
    [objects |-> [objects EXCEPT ![j] = [id |-> Some(jobId), writer |-> "addJob",
                                         addedAs |-> Some(jobId)]],
     keys |-> keys \cup {jobId}]

\* workflow.addJob(jobId, job)
CallAddJob ==
    /\ \E jobId \in JobIdValues, j \in 1..MaxJobs :
         /\ jobObjects' = addJob(jobObjects, configJobs, jobId, j).objects
         /\ configJobs' = addJob(jobObjects, configJobs, jobId, j).keys
    /\ needsResult' = <<>>
    /\ JobCalled

\* job.id = jobId written by the caller: id is a public field
AssignJobId ==
    /\ \E jobId \in JobIdValues, j \in 1..MaxJobs :
         jobObjects' = [jobObjects EXCEPT ![j].id = Some(jobId),
                                          ![j].writer = "caller"]
    /\ needsResult' = <<>>
    /\ UNCHANGED configJobs
    /\ JobCalled

\* if (!job.id): undefined and the empty string
HasNoId(job) == ~TruthyStr(job.id)

\* { id: job.id, outputs: createOutputsProxy(needs.<id>) }
JobOutputsRef(job) ==
    [id |-> Get(job.id), outputs |-> "needs." \o Get(job.id)]

\* variant: the reference made without the test of job.id
needs_Unchecked(js) ==
    [threw |-> None,
     refs |-> [k \in 1..Len(js) |->
                 [id |-> IF IsSome(js[k].id) THEN Get(js[k].id) ELSE "undefined",
                  outputs |-> "needs"]]]

\* needs(...jobs): the error thrown, or the references (one job: the
\* reference itself, kept here as a list of one)
needs(js) ==
    IF Len(js) = 1
    THEN IF HasNoId(js[1])
         THEN [threw |-> Some("Job must have an ID set. Make sure to call workflow.addJob() before using needs()."),
               refs |-> <<>>]
         ELSE [threw |-> None, refs |-> <<JobOutputsRef(js[1])>>]
    ELSE IF \E k \in 1..Len(js) : HasNoId(js[k])
         THEN [threw |-> Some("All jobs must have IDs set. Make sure to call workflow.addJob() before using needs()."),
               refs |-> <<>>]
         ELSE [threw |-> None, refs |-> [k \in 1..Len(js) |-> JobOutputsRef(js[k])]]

\* needs(job) or needs(job1, job2, ...)
CallNeeds ==
    /\ \E which \in SeqsUpTo(1..MaxJobs, MaxJobs) :
         needsResult' =
            <<[jobs |-> which,
               result |-> needs([k \in 1..Len(which) |-> jobObjects[which[k]]])]>>
    /\ UNCHANGED <<jobObjects, configJobs>>
    /\ JobCalled

NeedsNext ==
    \/ CallAddJob
    \/ AssignJobId
    \/ CallNeeds

NeedsSpec == NeedsInit /\ [][NeedsNext]_vars

----------------------------------------------------------------------------
(* DetectSpec: detectRequiredSetupActions on a workflow of a few steps *)

MaxWorkflowSteps == 3

\* the steps a workflow file can hold: command, action and function steps
DetectTemplates ==
    { StepRun(NewStep, <<"npm ci">>),
      StepUses(NewStep, CheckoutRef),
      StepWith(StepUses(NewStep, SetupNodeRef), ("node-version" :> "20")),
      StepRunTypeScript(NewStep, "processData", <<>>, "workflow.ts:12"),
      StepRunTypeScript(NewStep, "hello", <<Obj({"nodeVersion"}, "20")>>,
                        "workflow.ts:20") }

\* the steps divided into one job, or into two after the first cut steps
JobsOf(steps, cut) ==
    IF cut = 0 THEN <<steps>>
    ELSE <<SubSeq(steps, 1, cut), SubSeq(steps, cut + 1, Len(steps))>>

DetectInit ==
    /\ StepIdle
    /\ ArgsIdle
    /\ SynthIdle
    /\ drv = DrvIdle
    /\ DetectRestIdle
    /\ requiredSetup = <<>>
    /\ \E n \in 1..MaxWorkflowSteps :
          \E steps \in [1..n -> DetectTemplates], cut \in 0..(n - 1) :
              detectJobs = JobsOf(steps, cut)

\* detectRequiredSetupActions(workflow) is called
CallDetectRequiredSetupActions ==
    /\ requiredSetup = <<>>
    /\ requiredSetup' = <<detectRequiredSetupActions(detectJobs)>>
    /\ UNCHANGED <<detectJobs, stepVars, argVars, synthVars, drvVars, detectRest>>

DetectNext == CallDetectRequiredSetupActions

DetectSpec == DetectInit /\ [][DetectNext]_vars

----------------------------------------------------------------------------
(* WireSpec: processTypeScriptStep on function steps with argument lists *)

MaxWireArgs == 2

\* arguments of the types runTypeScript admits: plain values and strings
\* that hold "${{", among them an expression that holds a "}" of its own
WireValues ==
    { Str("100"), Num(50), Str("${{ github.sha }}"), Str("v${{ x }}"),
      Str("${{ '}' }}"), Str("${{ x") }

WireInit ==
    /\ calls = 0
    /\ lastCall = "new"
    /\ ArgsIdle
    /\ SynthIdle
    /\ drv = DrvIdle
    /\ CopyRestIdle
    /\ \E params \in SeqsUpTo(WireValues, MaxWireArgs),
          options \in {<<>>, <<Obj({"nodeVersion"}, "20")>>},
          env \in Optional(EnvMaps) :
         step = FunctionStepWith(options \o params, None, None, env, None, None,
                                 None, None)
    /\ replacement = <<>>

WireNext == CallProcessTypeScriptStep

WireSpec == WireInit /\ [][WireNext]_vars

----------------------------------------------------------------------------
(* PairSpec: one source file with two runTypeScript calls, each passing a  *)
(* function written in place; the function of one of the two steps is      *)
(* looked up at the line its call was made from.                           *)

\* lines the two calls may start at: close to each other and far apart
PairLines == {5, 14, 15, 20, 24, 29, 30, 41}

PairInit ==
    /\ StepIdle
    /\ ArgsIdle
    /\ SynthIdle
    /\ drv = DrvIdle
    /\ FindRestIdle
    /\ \E first, second \in PairLines :
          /\ first < second
          /\ ast = BuildAst(<< [kind |-> "callArrow", line |-> first],
                               [kind |-> "callArrow", line |-> second] >>,
                            1, <<>>)
          /\ targetLine \in {first, second}
    /\ fnName \in {"", "myFn"}
    /\ foundNode = <<>>

PairNext == CallFindFunctionInAST

PairSpec == PairInit /\ [][PairNext]_vars

----------------------------------------------------------------------------
(* FetchSpec: fetchActionYml(reference) against a server that holds, or    *)
(* does not hold, action.yml and action.yaml for the reference.            *)

\* bodies a file may have: a document with and one without a runs section,
\* an empty document (parse gives null), and text that is not YAML
Documents == {"runs", "no-runs", "empty", "malformed"}

\* what a fetch comes to: a response with a status and a body, or a
\* rejection (an Error of the network layer)
Responses ==
    [kind : {"response"}, status : {200, 404, 500}, body : Documents]
        \cup {[kind |-> "rejected", status |-> 0, body |-> "empty"]}

\* response.ok
ResponseOk(r) == r.status >= 200 /\ r.status <= 299

\* parse(yamlText): the metadata object, null, or a thrown YAMLParseError
Parse(body) ==
    CASE body = "runs" -> [threw |-> FALSE, isNull |-> FALSE, runs |-> TRUE]
      [] body = "no-runs" -> [threw |-> FALSE, isNull |-> FALSE, runs |-> FALSE]
      [] body = "empty" -> [threw |-> FALSE, isNull |-> TRUE, runs |-> FALSE]
      [] OTHER -> [threw |-> TRUE, isNull |-> FALSE, runs |-> FALSE]

Returned(metadata, file) ==
    [kind |-> "returned", metadata |-> metadata, error |-> "", from |-> file]

Threw(error, file) ==
    [kind |-> "threw", metadata |-> Parse("empty"), error |-> error, from |-> file]

\* lines 37-47: the text of action.yml parsed and validated
FromActionYml(body) ==
    LET metadata == Parse(body)
    IN  IF metadata.threw THEN Threw("YAMLParseError", "action.yml")
        ELSE IF metadata.isNull THEN Threw("TypeError", "action.yml")
        ELSE IF ~metadata.runs THEN Threw("Invalid action.yml", "action.yml")
        ELSE Returned(metadata, "action.yml")

\* lines 27-29: the text of action.yaml parsed and returned
FromActionYaml(body) ==
    LET metadata == Parse(body)
    IN  IF metadata.threw THEN Threw("YAMLParseError", "action.yaml")
        ELSE Returned(metadata, "action.yaml")

FetchInit ==
    /\ StepIdle
    /\ ArgsIdle
    /\ SynthIdle
    /\ drv = DrvIdle
    /\ FetchRestIdle
    /\ fetchPc = "start"
    /\ ymlResponse \in Responses
    /\ yamlResponse \in Responses
    /\ fetched = <<>>
    /\ fetchResult = <<>>

\* fetchActionYml(reference) up to its first await: fetch(url)
CallFetchActionYml ==
    /\ fetchPc = "start"
    /\ fetchPc' = "awaitYml"
    /\ fetched' = Append(fetched, "action.yml")
    /\ UNCHANGED <<ymlResponse, yamlResponse, fetchResult,
                   stepVars, argVars, synthVars, drvVars, fetchRest>>

\* the first fetch settles: lines 15-47, up to the second fetch if made
YmlSettles ==
    /\ fetchPc = "awaitYml"
    /\ IF ymlResponse.kind = "rejected"
       THEN /\ fetchResult' = <<Threw("fetch failed", "action.yml")>>
            /\ fetchPc' = "settled"
            /\ fetched' = fetched
       ELSE IF ResponseOk(ymlResponse)
       THEN /\ fetchResult' = <<FromActionYml(ymlResponse.body)>>
            /\ fetchPc' = "settled"
            /\ fetched' = fetched
       ELSE IF ymlResponse.status = 404
       THEN /\ fetchResult' = fetchResult
            /\ fetchPc' = "awaitYaml"
            /\ fetched' = Append(fetched, "action.yaml")
       ELSE /\ fetchResult' = <<Threw("Failed to fetch action.yml", "action.yml")>>
            /\ fetchPc' = "settled"
            /\ fetched' = fetched
    /\ UNCHANGED <<ymlResponse, yamlResponse,
                   stepVars, argVars, synthVars, drvVars, fetchRest>>

\* the second fetch settles: lines 21-29
YamlSettles ==
    /\ fetchPc = "awaitYaml"
    /\ fetchResult' =
          IF yamlResponse.kind = "rejected"
          THEN <<Threw("fetch failed", "action.yaml")>>
          ELSE IF ~ResponseOk(yamlResponse)
          THEN <<Threw("Failed to fetch action.yml", "action.yaml")>>
          ELSE <<FromActionYaml(yamlResponse.body)>>
    /\ fetchPc' = "settled"
    /\ UNCHANGED <<ymlResponse, yamlResponse, fetched,
                   stepVars, argVars, synthVars, drvVars, fetchRest>>

FetchNext ==
    \/ CallFetchActionYml
    \/ YmlSettles
    \/ YamlSettles

FetchSpec == FetchInit /\ [][FetchNext]_vars

----------------------------------------------------------------------------
(* RegistrySpec: saveImportedAction and isActionImported on the registry   *)
(* file, which does not exist at the start.  An entry is kept with the     *)
(* fields the lookups read and the two that tell one import from another.  *)

MaxSaves == 3

\* parseActionReference: owner/repo@version, the version being main when
\* the string names none
ActionReference(owner, repo, version, full) ==
    [owner |-> owner, repo |-> repo, version |-> version, full |-> full]

References ==
    { ActionReference("actions", "checkout", "v4", "actions/checkout@v4"),
      ActionReference("actions", "checkout", "main", "actions/checkout@main"),
      ActionReference("actions", "checkout", "main", "actions/checkout"),
      ActionReference("actions", "setup-node", "v4", "actions/setup-node@v4"),
      ActionReference("actions", "setup-node", "main", "actions/setup-node@main"),
      ActionReference("actions", "setup-node", "main", "actions/setup-node") }

\* entry.owner === reference.owner && entry.repo === reference.repo &&
\* entry.version === reference.version
SameAction(entry, reference) ==
    /\ entry.owner = reference.owner
    /\ entry.repo = reference.repo
    /\ entry.version = reference.version

\* registry.actions.findIndex(...): the first matching index, 0 for -1
FindIndex(actions, reference) ==
    LET hits == { i \in 1..Len(actions) : SameAction(actions[i], reference) }
    IN  IF hits = {} THEN 0 ELSE CHOOSE i \in hits : \A k \in hits : i <= k

\* the entry saveImportedAction makes for a reference at time now
RegistryEntry(reference, now) ==
    [owner |-> reference.owner, repo |-> reference.repo,
     version |-> reference.version, full |-> reference.full,
     importedAt |-> now]

\* variant: the entry is pushed whether or not the action is present
UpdatedActions_AlwaysPush(actions, reference, now) ==
    Append(actions, RegistryEntry(reference, now))

\* lines 107-128: the actions saveRegistry is given
UpdatedActions(actions, reference, now) ==
    LET existingIndex == FindIndex(actions, reference)
    IN  IF existingIndex >= 1
        THEN [actions EXCEPT ![existingIndex] = RegistryEntry(reference, now)]
        ELSE Append(actions, RegistryEntry(reference, now))

\* isActionImported(reference), the registry holding actions
isActionImported(actions, reference) ==
    \E i \in 1..Len(actions) : SameAction(actions[i], reference)

\* getRegistryEntry(reference): the first matching entry, or null
getRegistryEntry(actions, reference) ==
    IF FindIndex(actions, reference) = 0 THEN None
    ELSE Some(actions[FindIndex(actions, reference)])

RegistryInit ==
    /\ StepIdle
    /\ ArgsIdle
    /\ SynthIdle
    /\ drv = DrvIdle
    /\ RegistryRestIdle
    /\ registry = <<>>
    /\ savedRefs = {}
    /\ regClock = 0
    /\ lastSave = <<>>
    /\ importedAnswer = <<>>

\* saveImportedAction(reference, metadata), the files written without error
CallSaveImportedAction ==
    /\ regClock < MaxSaves
    /\ \E reference \in References :
          /\ registry' = UpdatedActions(registry, reference, regClock + 1)
          /\ savedRefs' = savedRefs \cup {reference}
          /\ lastSave' = <<[reference |-> reference, before |-> registry]>>
    /\ regClock' = regClock + 1
    /\ importedAnswer' = <<>>
    /\ UNCHANGED <<stepVars, argVars, synthVars, drvVars, registryRest>>

\* isActionImported(reference) and getRegistryEntry(reference) are called
CallIsActionImported ==
    /\ \E reference \in References :
          importedAnswer' = <<[reference |-> reference,
                               imported |-> isActionImported(registry, reference),
                               entry |-> getRegistryEntry(registry, reference)]>>
    /\ UNCHANGED <<registry, savedRefs, regClock, lastSave,
                   stepVars, argVars, synthVars, drvVars, registryRest>>

RegistryNext ==
    \/ CallSaveImportedAction
    \/ CallIsActionImported

RegistrySpec == RegistryInit /\ [][RegistryNext]_vars

----------------------------------------------------------------------------
(* Claims about the Step builder *)

----------------------------------------------------------------------------
(* Claims about argument marshaling *)

\* position of the first " = " in a line, 0 if there is none
FirstAssign(line) ==
    LET hits == {i \in 1..Len(line) : i + 2 <= Len(line)
                                      /\ SubSeq(line, i, i + 2) = " = "}
    IN  IF hits = {} THEN 0 ELSE CHOOSE i \in hits : \A j \in hits : i <= j

\* the name a generated line declares: const <name> = ...
DeclaredName(line) ==
    IF Len(line) >= 6 /\ SubSeq(line, 1, 6) = "const " /\ FirstAssign(line) > 6
    THEN SubSeq(line, 7, FirstAssign(line) - 1)
    ELSE ""

\* the names declared by a generated env-var prelude, in emission order
DeclaredNames(code) ==
    LET lines == SelectSeq(code, LAMBDA l : l # "")
    IN  [k \in 1..Len(lines) |-> DeclaredName(lines[k])]

\* a deferred argument: a string holding ${{, at least one non-} character, }}
IsDeferred(arg) ==
    /\ arg.t = "string"
    /\ \E i, j \in 1..Len(arg.s) :
          /\ i + 4 <= j /\ j + 1 <= Len(arg.s)
          /\ SubSeq(arg.s, i, i + 2) = "${{"
          /\ SubSeq(arg.s, j, j + 1) = "}}"
          /\ \A k \in (i + 3)..(j - 1) : CharAt(arg.s, k) # "}"

\* zero-based indices of the deferred arguments
DeferredIndices(as) == {i \in 0..(Len(as) - 1) : IsDeferred(as[i + 1])}

\* C8: for N deferred arguments generateEnvVarCode declares exactly N names,
\* pairwise distinct, GITHUB_EXPR_i for the argument at zero-based index i,
\* in increasing index order; literal arguments allocate no name.
C8_EnvVarNames ==
    envVarCode # None =>
        LET names == DeclaredNames(Get(envVarCode))
            idx == DeferredIndices(args)
        IN  /\ Len(names) = Cardinality(idx)
            /\ \A k, l \in 1..Len(names) : k # l => names[k] # names[l]
            /\ \A k \in 1..Len(names) :
                  \E i \in idx :
                      /\ names[k] = "GITHUB_EXPR_" \o ToString(i)
                      /\ Cardinality({j \in idx : j < i}) = k - 1

\* C8 witness: two deferred arguments around a literal one have been marshaled
C8_Witness ==
    /\ envVarCode # None
    /\ Cardinality(DeferredIndices(args)) = 2
    /\ 1 \notin DeferredIndices(args)
    /\ Len(args) = 3

----------------------------------------------------------------------------
(* Claims about setup injection *)

\* the workflow as built, before any pass over it
Built == Get(initial)

\* a step whose own uses names actions/setup-node
HoldsSetupNode(s) == IsSome(s.uses) /\ Includes(Get(s.uses), SetupNodeNeedle)

\* a step that carries a callable marker
IsFunctionStep(s) == s.typescriptFunction # None

\* job j of the built workflow has a function step and no setup-node step
NeedsInjection(j) ==
    /\ \E i \in 1..Len(Built.jobs[j].steps) :
           IsFunctionStep(Built.heap[Built.jobs[j].steps[i]])
    /\ \A i \in 1..Len(Built.jobs[j].steps) :
           ~HoldsSetupNode(Built.heap[Built.jobs[j].steps[i]])

\* the objects that did not exist when the workflow was built
IsNewObject(o) == o > Len(Built.heap)

\* C5: a second run of addSetupActionsToWorkflow adds no step to any job:
\* every job's step list after the second (and any later) run equals its
\* step list after the first run, also when the later run is the one that
\* processWorkflowSteps makes.
C5_SecondRunAddsNothing ==
    setupRuns >= 2 =>
        /\ pc = "built" => jobs = Get(afterSetup)
        /\ pre # None => Get(pre).jobs = Get(afterSetup)

\* C5 witness: two runs have been made on a workflow into which the first
\* run injected a step
C5_Witness ==
    /\ pc = "built"
    /\ setupRuns = 2
    /\ Get(afterSetup) # Built.jobs
    /\ jobs = Get(afterSetup)

\* C6: in a job with a function step and no setup-node step the first run
\* makes a setup-node step the first step and leaves the original steps
\* after it, the same objects, unchanged, in the same order.
C6_SetupStepFirst ==
    afterSetup # None =>
        \A j \in 1..Len(Built.jobs) :
            NeedsInjection(j) =>
                LET after == Get(afterSetup)[j].steps
                IN  /\ Len(after) = Len(Built.jobs[j].steps) + 1
                    /\ IsNewObject(after[1])
                    /\ HoldsSetupNode(heap[after[1]])
                    /\ ~IsFunctionStep(heap[after[1]])
                    /\ Tail(after) = Built.jobs[j].steps
                    /\ \A i \in 1..Len(Built.jobs[j].steps) :
                           heap[Built.jobs[j].steps[i]] =
                               Built.heap[Built.jobs[j].steps[i]]

\* C6 witness: a job of two different original steps, one of them a function
\* step, has been given its setup step
C6_Witness ==
    /\ afterSetup # None
    /\ pc = "built"
    /\ \E j \in 1..Len(Built.jobs) :
          /\ NeedsInjection(j)
          /\ Len(Built.jobs[j].steps) = 2
          /\ Built.jobs[j].steps[1] # Built.jobs[j].steps[2]
          /\ ~IsFunctionStep(Built.heap[Built.jobs[j].steps[1]])
          /\ Len(jobs[j].steps) = 3

\* C7: the first run decides for every job on its own: a job gets exactly
\* one new step, a setup-node step, iff it has a function step and no
\* setup-node step of its own; every other job keeps its step list.
C7_PerJobInjection ==
    afterSetup # None =>
        \A j \in 1..Len(Built.jobs) :
            LET after == Get(afterSetup)[j].steps
                injected == {i \in 1..Len(after) : IsNewObject(after[i])}
            IN  /\ NeedsInjection(j) <=> injected # {}
                /\ Cardinality(injected) <= 1
                /\ \A i \in injected : HoldsSetupNode(heap[after[i]])
                /\ ~NeedsInjection(j) => after = Built.jobs[j].steps
                /\ SelectSeq(after, LAMBDA o : ~IsNewObject(o)) = Built.jobs[j].steps

\* C7 witness: one job holds a setup-node step and no function step, the
\* other holds a function step only, and the other one got the injection
C7_Witness ==
    /\ afterSetup # None
    /\ \E j, k \in 1..Len(Built.jobs) :
          /\ j # k
          /\ NeedsInjection(j)
          /\ Len(Get(afterSetup)[j].steps) = Len(Built.jobs[j].steps) + 1
          /\ \E i \in 1..Len(Built.jobs[k].steps) :
                 HoldsSetupNode(Built.heap[Built.jobs[k].steps[i]])
          /\ Get(afterSetup)[k].steps = Built.jobs[k].steps

\* C7 second case: a job of two function steps got exactly one setup step
C7_TwoFunctionSteps ==
    /\ afterSetup # None
    /\ \E j \in 1..Len(Built.jobs) :
          /\ Len(Built.jobs[j].steps) = 2
          /\ \A i \in 1..2 : IsFunctionStep(Built.heap[Built.jobs[j].steps[i]])
          /\ Len(Get(afterSetup)[j].steps) = 3

----------------------------------------------------------------------------
(* Claims about the synthesis pass *)

\* the step lists the loop of processWorkflowSteps started from
Entered == Get(pre).jobs

\* the ids of the steps of jobs 1..j-1, in order
RECURSIVE StepsBefore(_, _)
StepsBefore(jbs, j) ==
    IF j <= 1 THEN <<>> ELSE StepsBefore(jbs, j - 1) \o jbs[j - 1].steps

\* C2: once processWorkflowSteps has completed, no step of any job carries a
\* callable marker, and at every place where a step carried one before the
\* pass there is now another step, one with run set.
C2_NoMarkerAfterPass ==
    pc = "done" =>
        \A j \in 1..Len(jobs) :
            /\ Len(jobs[j].steps) = Len(Entered[j].steps)
            /\ \A i \in 1..Len(jobs[j].steps) :
                 /\ GetTypeScriptFunction(heap[jobs[j].steps[i]]) = None
                 /\ IsFunctionStep(heap[Entered[j].steps[i]]) =>
                        /\ jobs[j].steps[i] # Entered[j].steps[i]
                        /\ IsSome(heap[jobs[j].steps[i]].run)
                        /\ TruthyText(heap[jobs[j].steps[i]].run)
                 /\ ~IsFunctionStep(heap[Entered[j].steps[i]]) =>
                        jobs[j].steps[i] = Entered[j].steps[i]

\* C2 witness: a pass over a job holding a function step and a plain step
\* has completed
C2_Witness ==
    /\ pc = "done"
    /\ \E j \in 1..Len(jobs) :
          \E i, k \in 1..Len(Entered[j].steps) :
              /\ IsFunctionStep(heap[Entered[j].steps[i]])
              /\ ~IsFunctionStep(heap[Entered[j].steps[k]])
              /\ ~HoldsSetupNode(heap[Entered[j].steps[k]])

\* C3: every step processTypeScriptStep has produced has run set and uses
\* unset, whatever builder calls were made on the function step.
C3_ProducedStepRunOnly ==
    pre # None =>
        \A o \in (Get(pre).heapLen + 1)..Len(heap) :
            /\ IsSome(heap[o].run)
            /\ TruthyText(heap[o].run)
            /\ ~IsSome(heap[o].uses)
            /\ ~IsSome(ToJSON(heap[o]).uses)
            /\ ~ToJSON(heap[o]).threw

\* C3 witness: a step was produced from a function step on which uses and
\* with were called after runTypeScript
C3_Witness ==
    /\ pre # None
    /\ Len(heap) > Get(pre).heapLen
    /\ pc = "processing"
    /\ si > 1
    /\ IsFunctionStep(heap[jobs[ji].steps[si - 1]])
    /\ IsSome(heap[jobs[ji].steps[si - 1]].uses)
    /\ IsSome(heap[jobs[ji].steps[si - 1]].with)
    /\ processedSteps[si - 1] = Len(heap)

\* C4: when extraction fails for a function step the pass is rejected at
\* that step: the steps visited are the steps up to and including it, the
\* job keeps its step list, and nothing is in progress.
C4_RejectsAtFailingStep ==
    extractionFailed =>
        /\ pc = "rejected"
        /\ tp = TpIdle
        /\ log = StepsBefore(Entered, ji) \o SubSeq(Entered[ji].steps, 1, si)
        /\ IsFunctionStep(heap[log[Len(log)]])
        /\ \A j \in ji..Len(jobs) : jobs[j].steps = Entered[j].steps
        /\ Len(heap) = Get(pre).heapLen + Len(SelectSeq(log, LAMBDA o :
                                                 IsFunctionStep(heap[o]))) - 1

\* C4 witness: the pass was rejected at a step that has a later step in its
\* job or a later job with steps
C4_Witness ==
    /\ pc = "rejected"
    /\ extractionFailed
    /\ \/ si < Len(jobs[ji].steps)
       \/ \E j \in (ji + 1)..Len(jobs) : Len(jobs[j].steps) > 0

\* C4 second case: rejection after an earlier function step was processed
C4_RejectedLater ==
    /\ pc = "rejected"
    /\ extractionFailed
    /\ Len(heap) > Get(pre).heapLen

\* C9: transpileWithBundling loads the bundler once and builds at most once;
\* when loading or building fails it takes the non-bundling path exactly
\* once and returns that path's code; when bundling succeeds it returns
\* the bundle and the non-bundling path is not taken.
C9_SingleFallback ==
    /\ tp.imports <= 1 /\ tp.builds <= 1 /\ tp.fallbacks <= 1
    /\ tp.bundlerFailed => tp.pc \in {"fallback", "return"}
    /\ tp.pc = "return" =>
          /\ tp.code # None
          /\ tp.imports = 1
          /\ tp.bundlerFailed =>
                /\ tp.fallbacks = 1
                /\ Get(tp.code) =
                       transpileWithoutBundling(tp.source,
                           processArguments(CurrentArgs),
                           generateEnvVarCode(CurrentArgs))
          /\ ~tp.bundlerFailed =>
                /\ tp.fallbacks = 0
                /\ tp.builds = 1
                /\ Get(tp.code) =
                       BundledCode(tp.source, processArguments(CurrentArgs),
                                   generateEnvVarCode(CurrentArgs))
    /\ tp.pc = "fallback" => tp.fallbacks = 0 /\ tp.bundlerFailed

\* C9 witness: the build failed and the non-bundling path has returned
C9_Witness ==
    /\ tp.pc = "return"
    /\ tp.bundlerFailed
    /\ tp.builds = 1
    /\ tp.fallbacks = 1

\* C9 second case: the bundler could not be loaded
C9_ImportFailed ==
    /\ tp.pc = "return"
    /\ tp.bundlerFailed
    /\ tp.builds = 0

----------------------------------------------------------------------------
(* Claims about the generated driver *)

\* C10: the driver ends the process with exit code 0 when the invoked
\* function returns or its promise resolves, and with exit code 1, after
\* writing to the error stream, when the function throws, its promise
\* rejects or the exported value is not a function; it produces no other
\* exit code, and none before it ends the process.
C10_DriverExitCodes ==
    /\ drv.pc # "exited" => drv.exitCode = None
    /\ drv.pc = "exited" =>
          /\ drv.exitCode \in {Some(0), Some(1)}
          /\ (drv.invoked /\ drv.behaviour \in {"returns", "resolves"}) =>
                 drv.exitCode = Some(0)
          /\ (drv.invoked /\ drv.behaviour \in {"throws", "rejects"}) =>
                 drv.exitCode = Some(1)
          /\ (~drv.moduleThrows /\ drv.exported # "function") =>
                 drv.exitCode = Some(1)
          /\ drv.exitCode = Some(1) => Len(drv.stderr) > 0
          /\ drv.exitCode = Some(0) => Len(drv.stderr) = 0

\* C10 witness: the promise of the invoked function rejected and the driver
\* has ended the process
C10_Witness ==
    /\ drv.pc = "exited"
    /\ drv.invoked
    /\ drv.behaviour = "rejects"
    /\ drv.exitCode = Some(1)

\* C10 second case: a function of the bundle returned a value
C10_Returned ==
    /\ drv.pc = "exited"
    /\ drv.path = "bundled"
    /\ drv.invoked
    /\ drv.behaviour = "returns"
    /\ drv.stdout # <<>>
    /\ drv.exitCode = Some(0)

\* C10 third case: the bundle exported no function
C10_NotAFunction ==
    /\ drv.pc = "exited"
    /\ drv.path = "bundled"
    /\ drv.exported = "undefined"
    /\ ~drv.invoked
    /\ drv.exitCode = Some(1)

\* the results one would call empty: no value, null, the empty string
EmptyResults == {"undefined", "null", "empty string"}

\* the function was invoked and came back without an exception
DriverSucceeded ==
    /\ drv.pc = "exited"
    /\ drv.invoked
    /\ drv.behaviour \in {"returns", "resolves"}

\* C11 as stated: the driver prints the return value exactly when it is
\* non-empty and prints nothing for an empty result.
C11_PrintsNonEmpty ==
    DriverSucceeded =>
        /\ drv.result \notin EmptyResults => drv.stdout = <<ConsoleLog(drv.result)>>
        /\ drv.result \in EmptyResults => drv.stdout = <<>>

\* C11 amended: the driver prints the return value exactly when it is not
\* undefined; null, the empty string and 0 are printed (as "null", an empty
\* line and "0"); nothing is printed when the function did not come back.
C11_PrintsUnlessUndefined ==
    /\ DriverSucceeded =>
          /\ drv.result # "undefined" => drv.stdout = <<ConsoleLog(drv.result)>>
          /\ drv.result = "undefined" => drv.stdout = <<>>
    /\ ~DriverSucceeded => drv.stdout = <<>>

\* C11 witness: a function returned null and the driver printed it
C11_Witness ==
    /\ DriverSucceeded
    /\ drv.result = "null"
    /\ drv.stdout = <<"null">>

\* C11 second case: a function returned nothing and nothing was printed
C11_NothingPrinted ==
    /\ DriverSucceeded
    /\ drv.result = "undefined"
    /\ drv.stdout = <<>>

----------------------------------------------------------------------------
(* Claims about the shell command *)

\* node was given the script, line for line, and the shell read nothing else
DeliveredVerbatim == stdin = Some(script) /\ leftover = <<>>

\* some line of the script is the delimiter and nothing else
HoldsDelimiterLine == \E i \in 1..Len(script) : script[i] = "TS_ACTIONS_EOF"

C12_CutShort ==
    /\ stdin # None
    /\ origin = "direct"
    /\ HoldsDelimiterLine
    /\ Len(Get(stdin)) < Len(script)
    /\ leftover # <<>>

----------------------------------------------------------------------------
(* Claims about the source locator *)

\* the file lies in a directory of that name
InsideDirectory(file, dir) == Includes(file, "/" \o dir \o "/")

\* the frame names a file that is on disk and lies outside the library's
\* modules, build output and third-party directories
Qualifies(frame) ==
    /\ IsSome(frame.file)
    /\ Get(frame.file) \in Disk
    /\ Get(frame.file) \notin LibraryInternals
    /\ ~InsideDirectory(Get(frame.file), "dist")
    /\ ~InsideDirectory(Get(frame.file), "node_modules")

QualifiedFrames == { k \in 1..Len(trace) : Qualifies(trace[k]) }

FirstQualified == CHOOSE k \in QualifiedFrames : \A j \in QualifiedFrames : k <= j

\* C13: parseStackTrace returns the file and line of the first frame, in
\* stack order, whose file exists on disk and is not inside the library's
\* internal modules, build output or third-party directories; it returns
\* not-found exactly when no frame qualifies.
C13_FirstQualifyingFrame ==
    located # <<>> =>
        IF QualifiedFrames = {} THEN located[1] = None
        ELSE located[1] = Some([filePath |-> Get(trace[FirstQualified].file),
                                lineNumber |-> trace[FirstQualified].line])

\* C13, the case that fails: the only frame is of an existing file outside
\* every excluded directory, and parseStackTrace found nothing
C13_QualifyingFrameSkipped ==
    /\ Len(trace) = 1
    /\ Qualifies(trace[1])
    /\ located = <<None>>

\* C13, the case that holds: frames of the library and of a missing file
\* are passed over and the frame after them is returned
C13_ReturnsLaterFrame ==
    /\ Len(trace) = 3
    /\ located = <<Some([filePath |-> "/app/wf.ts", lineNumber |-> 20])>>
    /\ trace[1].file = Some("/lib/src/core/step.ts")
    /\ trace[2].file = Some("/gone/wf.ts")

----------------------------------------------------------------------------
(* Claims about the function extractor *)

\* the runTypeScript calls of the file
RunTypeScriptCalls ==
    { n \in 1..Len(ast) : ast[n].kind = "call" /\ ast[n].name = "runTypeScript" }

\* the first argument of call n is a function declaration, a function
\* expression or an arrow function
HasFunctionArgument(n) ==
    /\ ChildrenOf(ast, n) # <<>>
    /\ IsFunctionNode(ast[ChildrenOf(ast, n)[1]])

FirstArgument(n) == ChildrenOf(ast, n)[1]

Distance(n) == Abs(ast[n].line - targetLine)

\* C14: the precise pass treats a runTypeScript call as a candidate exactly
\* when its line differs from the approximate line by at most 10: in a file
\* whose only runTypeScript call has a function as first argument, the
\* precise pass returns that argument if and only if the call is at most 10
\* lines away.
C14_CandidateWithinTen ==
    foundNode # <<>> =>
        \A n \in RunTypeScriptCalls :
            (RunTypeScriptCalls = {n} /\ HasFunctionArgument(n)) =>
                (foundNode[1] = [node |-> FirstArgument(n), pass |-> "precise"]
                    <=> Distance(n) <= 10)

\* C14, the case that fails: the only call is exactly 10 lines from the
\* approximate line and the precise pass did not take it
C14_TenLinesAwayNotTaken ==
    /\ foundNode # <<>>
    /\ \E n \in RunTypeScriptCalls :
          /\ RunTypeScriptCalls = {n}
          /\ HasFunctionArgument(n)
          /\ Distance(n) = 10
          /\ foundNode[1].pass = "fallback"

\* the calls of the window of the precise pass that have a function as
\* first argument
WindowCalls ==
    { n \in RunTypeScriptCalls :
        IsNearCall(ast[n].line, targetLine) /\ HasFunctionArgument(n) }

\* C15: whenever the window of the precise pass holds a runTypeScript call
\* whose first argument is a function, findFunctionInAST returns such an
\* argument without the fallback pass; the fallback pass runs only when the
\* window holds no such call.
C15_PrecisePassPreferred ==
    foundNode # <<>> =>
        IF WindowCalls # {}
        THEN /\ foundNode[1].pass = "precise"
             /\ \E n \in WindowCalls : foundNode[1].node = FirstArgument(n)
        ELSE foundNode[1].pass = "fallback"

\* C15, the case that fails: a call with an arrow function is in the window,
\* a later call in the window passes an identifier, and the fallback ran
C15_FallbackDespiteWindowCall ==
    /\ foundNode # <<>>
    /\ WindowCalls # {}
    /\ \E n \in RunTypeScriptCalls :
          /\ IsNearCall(ast[n].line, targetLine)
          /\ ~HasFunctionArgument(n)
    /\ foundNode[1].pass = "fallback"

\* the function nodes of the window of the fallback pass
WidenedWindow ==
    { n \in 1..Len(ast) :
        IsFunctionNode(ast[n]) /\ IsNearTargetLine(ast[n].line, targetLine) }

\* C16: in the fallback pass, for an anonymous function, the node returned
\* is the nearest to the approximate line among the function nodes of the
\* widened window.
C16_NearestInFallback ==
    (/\ foundNode # <<>>
     /\ foundNode[1].pass = "fallback"
     /\ fnName = ""
     /\ foundNode[1].node # 0) =>
        \A n \in WidenedWindow : Distance(foundNode[1].node) <= Distance(n)

\* C16, the case that fails: the fallback pass returned a function 10 lines
\* away though a function node stands at the approximate line itself
C16_FartherNodeReturned ==
    /\ foundNode # <<>>
    /\ foundNode[1].pass = "fallback"
    /\ fnName = ""
    /\ foundNode[1].node # 0
    /\ Distance(foundNode[1].node) = 10
    /\ \E n \in WidenedWindow : Distance(n) = 0

----------------------------------------------------------------------------
(* Claims about the arguments of the generated call *)

\* the line of the generated code that calls the function
CallLine ==
    LET code == callCode[1]
        l == CHOOSE k \in 1..Len(code) : Includes(code[k], "const result = await ")
    IN  code[l]

\* the first position of a substring in a string (0 if there is none)
IndexOf(s, sub) ==
    LET hits == { i \in 1..(Len(s) - Len(sub) + 1) :
                    SubSeq(s, i, i + Len(sub) - 1) = sub }
    IN  IF hits = {} THEN 0 ELSE CHOOSE i \in hits : \A j \in hits : i <= j

\* the text between the parentheses of the call: what follows await, without
\* the closing semicolon and without parentheses around the whole call
ArgumentText(line) ==
    LET whole == SubSeq(line, IndexOf(line, "await ") + 6, Len(line) - 1)
        call == IF CharAt(whole, 1) = "("
                THEN SubSeq(whole, 2, Len(whole) - 1)
                ELSE whole
    IN  SubSeq(call, IndexOf(call, "(") + 1, Len(call) - 1)

\* position i of the text lies outside every string literal
OutsideString(text, i) ==
    Cardinality({ q \in 1..(i - 1) : CharAt(text, q) = "\"" }) % 2 = 0

\* the commas that separate argument expressions
Separators(text) ==
    { i \in 1..Len(text) : CharAt(text, i) = "," /\ OutsideString(text, i) }

Trim(text) == IF CharAt(text, 1) = " " THEN SubSeq(text, 2, Len(text)) ELSE text

RECURSIVE SplitFrom(_, _)
\* the argument expressions from position from on
SplitFrom(text, from) ==
    LET later == { i \in Separators(text) : i >= from }
    IN  IF later = {} THEN << Trim(SubSeq(text, from, Len(text))) >>
        ELSE LET next == CHOOSE i \in later : \A j \in later : i <= j
             IN  << Trim(SubSeq(text, from, next - 1)) >>
                 \o SplitFrom(text, next + 1)

\* the argument expressions of the generated call, in order
CallArguments ==
    IF ArgumentText(CallLine) = "" THEN <<>>
    ELSE SplitFrom(ArgumentText(CallLine), 1)

\* the arguments the caller passed: what follows the function, or what
\* follows the options object when one is given
ArgumentsGiven ==
    IF given # <<>> /\ given[1] \in OptionsObjects THEN Tail(given) ELSE given

\* the expression evaluates to the value at position i (zero-based) of the
\* arguments: a literal of it, or, for a GitHub expression, the read of the
\* variable of that position with the expression as default
Denotes(expr, value, i) ==
    CASE value.t = "number" -> expr = ToString(value.n)
      [] value.t = "boolean" -> expr = (IF value.b THEN "true" ELSE "false")
      [] value.t = "string" /\ Includes(value.s, "${{") ->
            expr = "process.env.GITHUB_EXPR_" \o ToString(i)
                       \o " || \"" \o value.s \o "\""
      [] value.t = "string" /\ ~Includes(value.s, "${{") ->
            expr = "\"" \o value.s \o "\""
      [] OTHER -> FALSE

\* C17: the argument expressions of the generated call are as many as, and
\* in the order of, the arguments passed to runTypeScript after the function
\* (and after the options object when one is given); an options object is
\* not passed on and no argument is taken for options.
C17_ArgumentsInOrder ==
    callCode # <<>> =>
        /\ Len(CallArguments) = Len(ArgumentsGiven)
        /\ \A i \in 1..Len(ArgumentsGiven) :
              Denotes(CallArguments[i], ArgumentsGiven[i], i - 1)

\* C17 witness: an options object and three different arguments were
\* passed, one a string with a comma, one a GitHub expression, and the
\* call of the bundle has three argument expressions
C17_Witness ==
    /\ callCode # <<>>
    /\ Includes(CallLine, "await fn(")
    /\ given = << Obj({"nodeVersion"}, "20"), Str("${{ github.sha }}"),
                  Str("a, b"), Num(50) >>
    /\ Len(CallArguments) = 3

\* C17 second case: no options object, the first argument is a string
C17_NoOptions ==
    /\ callCode # <<>>
    /\ ~Includes(CallLine, "await fn(")
    /\ given = << Str("a, b"), Bool(FALSE) >>
    /\ CallArguments = << "\"a, b\"", "false" >>

\* C17 third case: an empty options object alone
C17_OnlyOptions ==
    /\ callCode # <<>>
    /\ given = << Obj({}, "") >>
    /\ CallArguments = <<>>

----------------------------------------------------------------------------
(* Claims about the properties of the replacement step *)

\* every entry of the function step's env is an entry of the other's
EnvEntriesKept(from, to) ==
    IsSome(from.env) =>
        /\ IsSome(to.env)
        /\ \A k \in DOMAIN Get(from.env) :
              k \in DOMAIN Get(to.env) /\ Get(to.env)[k] = Get(from.env)[k]

\* C18: the command step that replaces a function step has the id, name,
\* env entries, condition, continueOnError, timeoutMinutes and
\* workingDirectory the function step had, for every value those were set
\* to, false, 0 and the empty string included.
C18_PropertiesCopied ==
    replacement # <<>> =>
        /\ replacement[1].id = step.id
        /\ replacement[1].name = step.name
        /\ EnvEntriesKept(step, replacement[1])
        /\ replacement[1].if = step.if
        /\ replacement[1].continueOnError = step.continueOnError
        /\ replacement[1].timeoutMinutes = step.timeoutMinutes
        /\ replacement[1].workingDirectory = step.workingDirectory

\* C18, the case that fails: continueOnError(false), timeoutMinutes(0) and
\* workingDirectory("") were called and the replacement has none of them
C18_FalsyValuesDropped ==
    /\ replacement # <<>>
    /\ step.continueOnError = Some(FALSE)
    /\ step.timeoutMinutes = Some(0)
    /\ step.workingDirectory = Some("")
    /\ replacement[1].continueOnError = None
    /\ replacement[1].timeoutMinutes = None
    /\ replacement[1].workingDirectory = None

\* C18, the case that holds: every field set to a value that is not falsy
C18_TruthyValuesKept ==
    /\ replacement # <<>>
    /\ step.id = Some("s1")
    /\ step.name = Some("Build")
    /\ step.if = Some("always()")
    /\ step.continueOnError = Some(TRUE)
    /\ step.timeoutMinutes = Some(5)
    /\ step.workingDirectory = Some("app")
    /\ step.env = Some("CI" :> "true")
    /\ step.typescriptArgs # <<>>
    /\ C18_PropertiesCopied

----------------------------------------------------------------------------
(* Claims about the kind of a step *)

\* what the step is: an action step (uses set), a script step (run set), a
\* function step (_getTypeScriptFunction() not null)
KindsOf(s) ==
    (IF IsSome(s.uses) THEN {"action"} ELSE {})
    \cup (IF IsSome(s.run) THEN {"script"} ELSE {})
    \cup (IF GetTypeScriptFunction(s) # None THEN {"function"} ELSE {})

\* C19: after any sequence of uses(), run() and runTypeScript() calls the
\* step is at most one of action step, script step and function step, and
\* the most recent of the three calls alone determines which.
C19_OneKindByLastCall ==
    /\ Cardinality(KindsOf(step)) <= 1
    /\ lastCall = "uses" => KindsOf(step) = {"action"}
    /\ lastCall = "run" => KindsOf(step) = {"script"}
    /\ lastCall = "runTypeScript" => KindsOf(step) = {"function"}

\* C19, the case that fails: uses() was called last on a step that had been
\* given a function, and the step is an action step and a function step
C19_ActionAndFunction ==
    /\ lastCall = "uses"
    /\ KindsOf(step) = {"action", "function"}

\* C19, the cases that hold: run() or runTypeScript() called last after the
\* two other calls
C19_RunCalledLast ==
    /\ calls = 3
    /\ lastCall = "run"
    /\ KindsOf(step) = {"script"}

C19_RunTypeScriptCalledLast ==
    /\ calls = 3
    /\ lastCall = "runTypeScript"
    /\ KindsOf(step) = {"function"}

----------------------------------------------------------------------------
(* Claims about needs() *)

\* the needs() call just made
NeedsCall == needsResult[1]

NeedsSucceeded == needsResult # <<>> /\ NeedsCall.result.threw = None

NeedsThrew == needsResult # <<>> /\ NeedsCall.result.threw # None

\* the k-th job passed to the call
Passed(k) == jobObjects[NeedsCall.jobs[k]]

C20_ThrewForOneOfTwo ==
    /\ NeedsThrew
    /\ Len(NeedsCall.jobs) = 2
    /\ Passed(1).writer = "addJob"
    /\ Passed(1).id = Some("build")
    /\ Passed(2).id = None

\* C20 third case: a job that was never added, its id field written by the
\* caller, and a reference was returned
C20_NeverAdded ==
    /\ NeedsSucceeded
    /\ Len(NeedsCall.jobs) = 1
    /\ Passed(1).addedAs = None
    /\ configJobs = {}

----------------------------------------------------------------------------
(* Claims about the version of the injected setup step *)

\* the places of the function steps in job j of the built workflow
FunctionPlaces(j) ==
    { i \in 1..Len(Built.jobs[j].steps) :
        IsFunctionStep(Built.heap[Built.jobs[j].steps[i]]) }

\* the last function step of job j, in step order
LastFunctionStep(j) ==
    Built.heap[Built.jobs[j].steps[
        CHOOSE i \in FunctionPlaces(j) : \A k \in FunctionPlaces(j) : i >= k]]

\* the version a function step asked for in its options, "24" without one
RequestedVersion(s) ==
    IF s.typescriptOptions # None
       /\ "nodeVersion" \in Get(s.typescriptOptions).keys
    THEN Get(s.typescriptOptions).s
    ELSE "24"

\* C21: the node-version of the injected setup step is the version the
\* job's function step requested, "24" when it requested none, and with
\* several function steps in a job the version of the last of them.
C21_InjectedVersion ==
    afterSetup # None =>
        \A j \in 1..Len(Built.jobs) :
            NeedsInjection(j) =>
                heap[Get(afterSetup)[j].steps[1]].with =
                    Some("node-version" :> RequestedVersion(LastFunctionStep(j)))

\* C21 witness: a job whose first function step asked for 20 and whose last
\* asked for nothing got a setup step with node-version 24
C21_Witness ==
    /\ afterSetup # None
    /\ \E j \in 1..Len(Built.jobs) :
          /\ NeedsInjection(j)
          /\ Len(Built.jobs[j].steps) = 2
          /\ RequestedVersion(Built.heap[Built.jobs[j].steps[1]]) = "20"
          /\ Built.heap[Built.jobs[j].steps[2]].typescriptOptions = None
          /\ IsFunctionStep(Built.heap[Built.jobs[j].steps[2]])
          /\ heap[Get(afterSetup)[j].steps[1]].with = Some("node-version" :> "24")

\* C21 second case: the only function step asked for 20
C21_RequestedTwenty ==
    /\ afterSetup # None
    /\ \E j \in 1..Len(Built.jobs) :
          /\ NeedsInjection(j)
          /\ Cardinality(FunctionPlaces(j)) = 1
          /\ heap[Get(afterSetup)[j].steps[1]].with = Some("node-version" :> "20")

----------------------------------------------------------------------------
(* Claims about detectRequiredSetupActions *)

\* the places of the workflow's steps that use actions/setup-node
SetupNodePlaces ==
    { i \in 1..Len(StepsOfJobs(detectJobs)) :
        TruthyStr(StepsOfJobs(detectJobs)[i].uses)
        /\ Includes(Get(StepsOfJobs(detectJobs)[i].uses), "actions/setup-node") }

\* the places of the workflow's function steps
DetectFunctionPlaces ==
    { i \in 1..Len(StepsOfJobs(detectJobs)) :
        StepsOfJobs(detectJobs)[i].typescriptFunction # None }

\* C22: no setup-node requirement is returned for a workflow that holds a
\* step using actions/setup-node, wherever that step stands, and exactly one
\* is returned when function steps exist and no setup-node step does.
C22_NoneWhenSetupNodePresent ==
    requiredSetup # <<>> =>
        /\ SetupNodePlaces # {} => Get(requiredSetup) = <<>>
        /\ (SetupNodePlaces = {} /\ DetectFunctionPlaces # {}) =>
               Len(Get(requiredSetup)) = 1

\* C22, as the loop computes it: a requirement is returned exactly when a
\* function step stands after every setup-node step of the workflow
C22_NoneWhenSetupNodeLast ==
    requiredSetup # <<>> =>
        (Len(Get(requiredSetup)) = 1) =
            (\E f \in DetectFunctionPlaces : \A u \in SetupNodePlaces : u < f)

\* C22 case: setup-node stands before the function step and a requirement
\* is returned all the same
C22_RequiredDespiteSetupNode ==
    /\ requiredSetup # <<>>
    /\ Len(StepsOfJobs(detectJobs)) = 2
    /\ 1 \in SetupNodePlaces
    /\ 2 \in DetectFunctionPlaces
    /\ Len(Get(requiredSetup)) = 1

----------------------------------------------------------------------------
(* Claims about the step lists processWorkflowSteps leaves *)

\* the jobs whose step list has been replaced
Replaced == { j \in 1..Len(jobs) : pre # None /\ (j < ji \/ pc = "done") }

\* the objects that did not exist when the step loop started
IsProduced(o) == o > Get(pre).heapLen

\* the places (job, position) at which the jobs jbs hold object o
PlacesOf(jbs, o) ==
    { <<j, i>> \in (1..Len(jbs)) \X (1..(MaxSteps + 2)) :
        i <= Len(jbs[j].steps) /\ jbs[j].steps[i] = o }

\* the jobs among jbs that hold object o
JobsHolding(jbs, o) == { j \in 1..Len(jbs) : \E i \in 1..Len(jbs[j].steps) :
                                                 jbs[j].steps[i] = o }

\* position by position: the same object where the step had no function, an
\* object made by the pass, with run set and no function, where it had one
KeptInPlace(j) ==
    /\ Len(jobs[j].steps) = Len(Entered[j].steps)
    /\ \A i \in 1..Len(Entered[j].steps) :
          IF IsFunctionStep(heap[Entered[j].steps[i]])
          THEN /\ IsProduced(jobs[j].steps[i])
               /\ ~IsFunctionStep(heap[jobs[j].steps[i]])
               /\ TruthyText(heap[jobs[j].steps[i]].run)
               /\ Cardinality(PlacesOf(jobs, jobs[j].steps[i])) = 1
          ELSE jobs[j].steps[i] = Entered[j].steps[i]

\* C23 as stated: after the pass every job has its steps in place, the plain
\* ones the same objects and the function steps replaced by new command
\* steps, and no step object is in two jobs.
C23_NoObjectInTwoJobs ==
    pc = "done" =>
        /\ \A j \in Replaced : KeptInPlace(j)
        /\ \A o \in DOMAIN heap : Cardinality(JobsHolding(jobs, o)) <= 1

\* C23: a replaced step list has the length and order of the list the loop
\* started from: a step without a function is the same object, a function
\* step has become a command step made by the pass, which stands at that
\* place only; an object is in two jobs only if it was in both when the loop
\* started; and no step of the program changes an existing step object.
C23_StepsKeptInPlace ==
    /\ [](/\ \A j \in Replaced : KeptInPlace(j)
          /\ pc = "done" =>
                \A o \in DOMAIN heap :
                    Cardinality(JobsHolding(jobs, o)) > 1 =>
                        /\ ~IsProduced(o)
                        /\ JobsHolding(jobs, o) \subseteq JobsHolding(Entered, o))
    /\ [][\A o \in DOMAIN heap : heap'[o] = heap[o]]_vars

\* C23 witness: the pass is over and a job holds a step it kept and, after
\* it, a command step made for a function step
C23_Witness ==
    /\ pc = "done"
    /\ \E j \in 1..Len(jobs) : \E i, k \in 1..Len(jobs[j].steps) :
          /\ i < k
          /\ ~IsFunctionStep(heap[Entered[j].steps[i]])
          /\ jobs[j].steps[i] = Entered[j].steps[i]
          /\ ~IsNewObject(jobs[j].steps[i])
          /\ IsFunctionStep(heap[Entered[j].steps[k]])
          /\ IsProduced(jobs[j].steps[k])

\* C23 case: one step without a function was added to both jobs and is in
\* both after the pass
C23_SharedStepStillShared ==
    /\ pc = "done"
    /\ \E o \in DOMAIN heap :
          /\ ~IsFunctionStep(heap[o])
          /\ JobsHolding(Built.jobs, o) = {1, 2}
          /\ JobsHolding(jobs, o) = {1, 2}

----------------------------------------------------------------------------
(* Claims about the variables of deferred arguments *)

\* the arguments the function step holds, position i being zero-based i - 1
WiredArgs == Get(GetTypeScriptFunction(step)).args

\* the env of the replacement step has the key GITHUB_EXPR_i
EnvHolds(i) ==
    /\ IsSome(replacement[1].env)
    /\ ("GITHUB_EXPR_" \o ToString(i)) \in DOMAIN Get(replacement[1].env)

\* the script of the replacement step reads GITHUB_EXPR_i from the
\* environment where it passes argument i
ScriptReads(i) ==
    \E l \in 1..Len(Get(replacement[1].run)) :
        /\ Includes(Get(replacement[1].run)[l], "const result = await ")
        /\ Includes(Get(replacement[1].run)[l],
                    "process.env.GITHUB_EXPR_" \o ToString(i) \o " || ")

\* C24: for every argument list and every index i the env of the
\* replacement step has the key GITHUB_EXPR_i exactly when the generated
\* script reads GITHUB_EXPR_i from the environment for argument i.
C24_SameArgumentsDeferred ==
    replacement # <<>> =>
        \A i \in 0..(Len(WiredArgs) - 1) : EnvHolds(i) = ScriptReads(i)

\* C24, one direction: what the script reads is in the env of the step
C24_ReadIsWired ==
    replacement # <<>> =>
        \A i \in 0..(Len(WiredArgs) - 1) : ScriptReads(i) => EnvHolds(i)

\* C24 case: the env has the variable of argument 0, an expression with a
\* "}" inside, and the script passes the string itself
C24_WiredButNotRead ==
    /\ replacement # <<>>
    /\ WiredArgs = <<Str("${{ '}' }}")>>
    /\ EnvHolds(0)
    /\ ~ScriptReads(0)
    /\ \E l \in 1..Len(Get(replacement[1].run)) :
          Includes(Get(replacement[1].run)[l], "(\"${{ '}' }}\")")

\* C24 case: a well-formed expression without "}" is deferred by both
C24_BothDefer ==
    /\ replacement # <<>>
    /\ WiredArgs = <<Str("100"), Str("${{ github.sha }}")>>
    /\ EnvHolds(1) /\ ScriptReads(1)
    /\ ~EnvHolds(0) /\ ~ScriptReads(0)

----------------------------------------------------------------------------
(* Claims about two runTypeScript calls in one file *)

\* the call the step was registered by: the one at the line of its stack
OwnCall == CHOOSE n \in RunTypeScriptCalls : ast[n].line = targetLine

\* the other call of the file
OtherCall == CHOOSE n \in RunTypeScriptCalls : n # OwnCall

\* C25: with two runTypeScript calls in one source file, the function
\* extracted for a step is the first argument of the step's own call, also
\* when both calls lie inside the window of the precise pass.
C25_OwnFunctionExtracted ==
    foundNode # <<>> => foundNode[1].node = FirstArgument(OwnCall)

\* C25, as the walk computes it: the function extracted is the first
\* argument of the last call, in source order, inside the window
C25_LastCallInWindow ==
    foundNode # <<>> =>
        foundNode[1].node =
            FirstArgument(CHOOSE n \in WindowCalls :
                              \A k \in WindowCalls : k <= n)

\* C25 case: the step registered at line 20 gets the function passed to the
\* call at line 24
C25_OtherFunctionExtracted ==
    /\ foundNode # <<>>
    /\ targetLine = 20
    /\ ast[OwnCall].line = 20
    /\ ast[OtherCall].line = 24
    /\ foundNode[1].node = FirstArgument(OtherCall)
    /\ foundNode[1].pass = "precise"

\* C25 case: the calls are more than ten lines apart and each step gets the
\* function of its own call
C25_FarApart ==
    /\ foundNode # <<>>
    /\ Abs(ast[OwnCall].line - ast[OtherCall].line) >= PreciseWindow
    /\ foundNode[1].node = FirstArgument(OwnCall)

----------------------------------------------------------------------------
(* Claims about the workflow an aborted pass leaves *)

\* the steps of job j as built, behind a new setup step when the job has a
\* function step and no setup-node step
UnconvertedWithSetup(j) ==
    /\ Len(jobs[j].steps) =
           Len(Built.jobs[j].steps) + (IF NeedsInjection(j) THEN 1 ELSE 0)
    /\ NeedsInjection(j) =>
           /\ IsNewObject(jobs[j].steps[1])
           /\ ~IsProduced(jobs[j].steps[1])
           /\ HoldsSetupNode(heap[jobs[j].steps[1]])
           /\ Tail(jobs[j].steps) = Built.jobs[j].steps
    /\ ~NeedsInjection(j) => jobs[j].steps = Built.jobs[j].steps

\* C26: when processWorkflowSteps aborts at a step of job J, the step list
\* of J has not been replaced (it holds J's function steps and the setup
\* step injected, if any), every job before J holds its converted command
\* steps, and every job after J holds its unconverted steps and the setup
\* step injected, if any.
C26_AbortLeavesJobsAsTheyWere ==
    pc = "rejected" =>
        /\ UnconvertedWithSetup(ji)
        /\ IsFunctionStep(heap[jobs[ji].steps[si]])
        /\ \A j \in 1..(ji - 1) :
              /\ KeptInPlace(j)
              /\ \A i \in 1..Len(jobs[j].steps) :
                    ~IsFunctionStep(heap[jobs[j].steps[i]])
        /\ \A j \in (ji + 1)..Len(jobs) : UnconvertedWithSetup(j)

\* C26 witness: the pass aborted in the second job, at its second function
\* step, the first job holding the command step made for its function step
C26_Witness ==
    /\ pc = "rejected"
    /\ ji = 2
    /\ \E i \in 1..Len(jobs[1].steps) : IsProduced(jobs[1].steps[i])
    /\ NeedsInjection(2)
    /\ Len(jobs[2].steps) = 2
    /\ IsFunctionStep(heap[jobs[2].steps[2]])

\* C26 second case: the pass aborted in the first job, at the second of two
\* function steps, and the second job holds a setup step and a function step
C26_AbortedInFirstJob ==
    /\ pc = "rejected"
    /\ ji = 1
    /\ NeedsInjection(2)
    /\ IsFunctionStep(heap[jobs[2].steps[2]])

\* C26 third case: the first of two function steps of the job was converted
\* before the second aborted
C26_AbortedAfterAConversion ==
    /\ pc = "rejected"
    /\ si = 3
    /\ Len(processedSteps) = 2
    /\ IsProduced(processedSteps[2])
    /\ \A i \in 2..3 : IsFunctionStep(heap[jobs[ji].steps[i]])

----------------------------------------------------------------------------
(* Claims about the inputs of a command step *)

\* C27: in every state reached through builder calls, a step whose run is
\* set carries no with inputs in its toJSON.
C27_RunStepHasNoWith ==
    (IsSome(step.run) /\ ~ToJSON(step).threw) => ToJSON(step).with = None

\* C27, as run() provides it: right after a run() call the step has no with
C27_RunClearsWith ==
    lastCall = "run" => (~ToJSON(step).threw /\ ToJSON(step).with = None)

\* C27 case: with() called after run() leaves both in the toJSON
C27_WithAfterRun ==
    /\ lastCall = "with"
    /\ ~ToJSON(step).threw
    /\ ToJSON(step).run = Some(<<"npm ci">>)
    /\ ToJSON(step).with = Some(("node-version" :> "20"))
    /\ ToJSON(step).uses = None

----------------------------------------------------------------------------
(* Claims about the lines of an emitted run command *)

\* the lines of the command between its first and its last line
InnerLines == SubSeq(Get(runCommand), 2, Len(Get(runCommand)) - 1)

\* C28: in a run command made from synthesized code, no line between the
\* opening node << 'TS_ACTIONS_EOF' line and the final line is
\* TS_ACTIONS_EOF, whatever the code of the function holds: the wrapper
\* indents every line of it.
C28_NoDelimiterLineInside ==
    (runCommand # None /\ origin = "synthesized") =>
        /\ Get(runCommand)[1] = "node << 'TS_ACTIONS_EOF'"
        /\ Get(runCommand)[Len(Get(runCommand))] = "TS_ACTIONS_EOF"
        /\ \A l \in 1..Len(InnerLines) : InnerLines[l] # "TS_ACTIONS_EOF"

\* C28 witness: the first line of the code was TS_ACTIONS_EOF and stands
\* indented right after the wrapper's try line
C28_Witness ==
    /\ runCommand # None
    /\ origin = "synthesized"
    /\ \E l \in 2..Len(InnerLines) :
          /\ InnerLines[l - 1] = "try {"
          /\ InnerLines[l] = "  TS_ACTIONS_EOF"
          /\ InnerLines[l + 1] = "  console.log(1);"

----------------------------------------------------------------------------
(* Claims about fetchActionYml *)

\* the document the call obtained, from either file
Obtained ==
    IF Len(fetched) = 2 THEN yamlResponse ELSE ymlResponse

\* the call obtained a document that has no runs section
ObtainedWithoutRuns ==
    /\ Obtained.kind = "response"
    /\ ResponseOk(Obtained)
    /\ Obtained.body = "no-runs"

\* the fallback is tried at most once, and only after a 404 on action.yml
FallbackOnceAfter404 ==
    /\ fetched \in {<<>>, <<"action.yml">>, <<"action.yml", "action.yaml">>}
    /\ Len(fetched) = 2 =>
          (ymlResponse.kind = "response" /\ ymlResponse.status = 404)

\* C29: every metadata object fetchActionYml returns has a runs section: a
\* document without one is rejected with 'Invalid action.yml', from
\* action.yml and from the action.yaml fallback alike, and the fallback is
\* tried once, only after a 404 on action.yml.
C29_ReturnedHasRuns ==
    /\ FallbackOnceAfter404
    /\ fetchResult # <<>> =>
          /\ fetchResult[1].kind = "returned" =>
                (~fetchResult[1].metadata.isNull /\ fetchResult[1].metadata.runs)
          /\ ObtainedWithoutRuns =>
                (fetchResult[1].kind = "threw"
                 /\ fetchResult[1].error = "Invalid action.yml")

\* C29, as the code provides it: the check is made on what action.yml held
C29_ActionYmlValidated ==
    /\ FallbackOnceAfter404
    /\ (fetchResult # <<>> /\ Len(fetched) = 1) =>
          /\ fetchResult[1].kind = "returned" => fetchResult[1].metadata.runs
          /\ ObtainedWithoutRuns =>
                (fetchResult[1].kind = "threw"
                 /\ fetchResult[1].error = "Invalid action.yml")

\* C29 case: action.yml gave 404, action.yaml held a document without a
\* runs section, and that document was returned
C29_FallbackReturnedWithoutRuns ==
    /\ fetchResult # <<>>
    /\ fetched = <<"action.yml", "action.yaml">>
    /\ ymlResponse.status = 404
    /\ yamlResponse = [kind |-> "response", status |-> 200, body |-> "no-runs"]
    /\ fetchResult[1].kind = "returned"
    /\ ~fetchResult[1].metadata.runs

\* C29 case: action.yml held a document without a runs section and the call
\* threw 'Invalid action.yml'
C29_ActionYmlRejected ==
    /\ fetchResult # <<>>
    /\ fetched = <<"action.yml">>
    /\ ObtainedWithoutRuns
    /\ fetchResult[1] = Threw("Invalid action.yml", "action.yml")

----------------------------------------------------------------------------
(* Claims about the registry of imported actions *)

\* the places of the registry that hold the action of a reference
PlacesHolding(actions, reference) ==
    { i \in 1..Len(actions) : SameAction(actions[i], reference) }

\* some saved reference names the same owner, repo and version
WasSaved(reference) == \E saved \in savedRefs : SameAction(saved, reference)

\* the last save found its action at place k of the registry and changed
\* that place only
ReplacedInPlace(k) ==
    /\ Len(registry) = Len(lastSave[1].before)
    /\ registry[k].full = lastSave[1].reference.full
    /\ registry[k].importedAt = regClock
    /\ SameAction(registry[k], lastSave[1].reference)
    /\ \A i \in 1..Len(registry) : i # k => registry[i] = lastSave[1].before[i]

\* the last save found no entry of its action and put one at the end
AddedAtEnd ==
    /\ Len(registry) = Len(lastSave[1].before) + 1
    /\ SubSeq(registry, 1, Len(registry) - 1) = lastSave[1].before
    /\ SameAction(registry[Len(registry)], lastSave[1].reference)
    /\ registry[Len(registry)].full = lastSave[1].reference.full
    /\ registry[Len(registry)].importedAt = regClock

\* C30: after any sequence of saveImportedAction calls the registry holds at
\* most one entry per owner, repo and version; a save of an action that is
\* present replaces its entry at the same place and leaves every other
\* entry and the order unchanged; and isActionImported is true for exactly
\* the references that have been saved.
C30_OneEntryPerAction ==
    /\ \A reference \in References :
          Cardinality(PlacesHolding(registry, reference)) <= 1
    /\ lastSave # <<>> =>
          IF PlacesHolding(lastSave[1].before, lastSave[1].reference) # {}
          THEN \E k \in PlacesHolding(lastSave[1].before, lastSave[1].reference) :
                   ReplacedInPlace(k)
          ELSE AddedAtEnd
    /\ importedAnswer # <<>> =>
          /\ importedAnswer[1].imported = WasSaved(importedAnswer[1].reference)
          /\ importedAnswer[1].imported = (importedAnswer[1].entry # None)

\* C30 witness: the first of two entries was saved again under another
\* spelling and replaced where it stood, and the lookup found it
C30_Witness ==
    /\ Len(registry) = 2
    /\ regClock = 3
    /\ lastSave # <<>>
    /\ lastSave[1].reference.full = "actions/checkout"
    /\ lastSave[1].before[1].full = "actions/checkout@main"
    /\ registry[1].full = "actions/checkout"
    /\ registry[1].importedAt = 3
    /\ registry[2] = lastSave[1].before[2]
    /\ importedAnswer # <<>>
    /\ importedAnswer[1].reference.full = "actions/checkout@main"
    /\ importedAnswer[1].imported

\* C30 second case: a reference that was never saved is not imported
C30_NotImported ==
    /\ registry # <<>>
    /\ importedAnswer # <<>>
    /\ ~importedAnswer[1].imported
    /\ importedAnswer[1].entry = None
    /\ ~WasSaved(importedAnswer[1].reference)

====
